---- MODULE Spec2Model ----
(***************************************************************************)
(* A model of the ECS core of game-demo-fight: the World registry and its  *)
(* tick (ecs/World.ts), the Entity component map (ecs/Entity.ts), the      *)
(* HealthComponent (components/VelocityComponent.ts) and the contact-damage*)
(* pass of the CollisionSystem (systems/CollisionSystem.ts) as driven by   *)
(* MainScene.update.                                                       *)
(*                                                                         *)
(* The specifications share the variables:                                 *)
(*   Spec          the World: entity staging, flush, queries               *)
(*   SpecDispatch  the World: system list and dispatch loop                *)
(*   SpecSystems   the system list under addSystem and removeSystem        *)
(*   SpecOrder     the systems MainScene.create registers                  *)
(*   SpecEntity    one Entity and its component instances                  *)
(*   SpecHealth    one HealthComponent under arbitrary method calls        *)
(*   SpecCombat    the scene tick: player, enemies, contact damage         *)
(*   SpecProjectile, SpecKnockback, SpecVelocity, SpecPush, SpecMove:      *)
(*                 projectiles, knockback, velocity and movement           *)
(*   SpecEnemyAI   enemies under EnemyAISystem, EnemyVisualSystem, melee   *)
(*   SpecSkill     the skill cooldown of the PlayerComponent               *)
(*   SpecThreshold the distance tests of the CollisionSystem               *)
(*   SpecClear     the Entity of SpecEntity under World.clear              *)
(* Each specification leaves the variables of the others unchanged.        *)
(***************************************************************************)
EXTENDS Integers, Sequences, FiniteSets, TLC

(***************************************************************************)
(* Bounds of the model (not program constants).                            *)
(***************************************************************************)
\* entities the World may create in one run (ids 1..MaxEntities)
MaxEntities == 2
\* System objects that may be registered (ids 1..MaxSystems)
MaxSystems == 3
\* component instances constructed for the entity of SpecEntity
MaxInstances == 3
\* the count of release hook calls of an instance is kept up to this value
MaxHookCalls == 2

\* component kinds (classes) used as Map keys in Entity.components
Kinds == {"Transform", "Health"}
\* a component class of which no instance is ever added to an entity
Unregistered == "Unregistered"
QueryKinds == Kinds \cup {Unregistered}

EntityIds == 1..MaxEntities
SysIds == 1..MaxSystems

VARIABLES
    \* ---- World (ecs/World.ts) and Entity (ecs/Entity.ts) ----
    nextId,            \* Entity.nextId
    entities,          \* World.entities, a JS Set: sequence in insertion order
    entitiesToAdd,     \* World.entitiesToAdd, a JS Set
    entitiesToRemove,  \* World.entitiesToRemove, a JS Set
    components,        \* Entity.components of each entity: the kinds it holds
    released,          \* number of destroy() calls received by the components
                       \* of entity e, per kind (the release hook)
    systems,           \* World.systems, the array of registered systems
    enabled,           \* System.enabled of each system object
    pc,                \* position of World.update: 0 = not running,
                       \* i = the loop over this.systems is at index i
    running,           \* TRUE while systems[pc].update is executing
    tickLog,           \* systems whose update the current tick has invoked
    propagated,        \* TRUE iff an exception escaped World.update
    held,              \* the array returned by getEntitiesWith to the caller
                       \* that is executing (a local of that caller)
    threw,             \* systems whose update threw in the current tick
    \* history of the run, used to state the claims
    fresh,             \* entities createEntity has returned since the last
                       \* flush
    doomed,            \* entities passed to removeEntity while still staged
                       \* for admission
    destroyed          \* entities on which Entity.destroy has run

VARIABLES
    asked              \* the kinds passed to the getEntitiesWith call that
                       \* returned held

worldCore == <<nextId, entities, entitiesToAdd, entitiesToRemove, components,
               released, systems, enabled, pc, running, tickLog, propagated,
               held, threw, fresh, doomed, destroyed>>

VARIABLES
    \* ---- one Entity and its component instances (ecs/Entity.ts) ----
    slots,             \* Entity.components: the instance stored under each
                       \* kind, 0 if none
    hookCalls,         \* destroy() calls each component instance received
    instancesMade,     \* component instances constructed so far
    membership,        \* "staged" in entitiesToAdd, "live" in entities,
                       \* "removed" once a flush has deleted it,
                       \* "cleared" once World.clear has dropped it
    removalStaged      \* the entity is in entitiesToRemove

entityVars == <<slots, hookCalls, instancesMade, membership, removalStaged>>

VARIABLES
    \* ---- the enemies of a scene under EnemyAISystem, EnemyVisualSystem ----
    \* ---- and the melee scan of CollisionSystem                          ----
    aiEnemies,         \* enemies in creation order: [id, kind, x, y,
                       \* velocity, hc, isKnockbackActive, isMoving,
                       \* bounceTime, scaleTarget, state, staged]
    aiPlayer,          \* the player entity: [x, y, state, staged]
    aiPhase,           \* 0 between ticks, else the next system to run
    aiDelta,           \* the deltaTime of the tick under way
    aiTicks,           \* World.update calls so far
    aiTimers,          \* pending delayedCall(500) callbacks of
                       \* applyEnemyKnockback: [id, left]
    visualEnabled,     \* EnemyVisualSystem.enabled
    attacks,           \* checkAttackCollisions calls so far
    lastAttack,        \* arguments of the latest call: [x, y, range, damage]
    hitEnemies         \* ids in the array the latest call returned

aiVars == <<aiEnemies, aiPlayer, aiPhase, aiDelta, aiTicks, aiTimers,
            visualEnabled, attacks, lastAttack, hitEnemies>>

VARIABLES
    \* ---- the skill cooldown of the PlayerComponent ----
    skillCooldown,     \* PlayerComponent.skillCooldown, in ms
    skillReturn,       \* "true" or "false": what the useSkill call that
                       \* has just been made returned; "none" after a tick
    skillDelta,        \* the deltaTime of the latest tick
    skillSince,        \* ms of tick time since the latest successful
                       \* useSkill, counted up to skillCooldownTime
    skillUses          \* successful useSkill calls, counted up to
                       \* MaxSkillUses

skillVars == <<skillCooldown, skillReturn, skillDelta, skillSince, skillUses>>

VARIABLES
    \* ---- the three distance tests of CollisionSystem, one case each ----
    contactCase,       \* the latest pass of the player against one enemy:
                       \* [a, b, range, hit, done], a the player's place,
                       \* b the enemy's, hit whether damage was applied
    shotCase,          \* the latest pass of one projectile (at a) against
                       \* one enemy (at b)
    meleeCase          \* the latest checkAttackCollisions(a, range) against
                       \* one enemy (at b), hit whether it was returned

thresholdVars == <<contactCase, shotCase, meleeCase>>

\* the variables of the specifications added after SpecEnemyAI
sceneVars == <<skillVars, thresholdVars>>

worldVars == <<worldCore, asked, entityVars, aiVars, sceneVars>>

VARIABLES
    \* ---- one HealthComponent (components/HealthComponent.ts) ----
    h,                 \* its fields
    lastCall,          \* the last method called on it and what it returned
    invDur,            \* duration passed to the last setInvincible call
    invSince           \* sum of the deltaTime values passed to update since
                       \* that call, capped at invDur

healthVars == <<h, lastCall, invDur, invSince>>

VARIABLES
    \* ---- the scene's combat state (MainScene, CollisionSystem) ----
    playerPlace,       \* the player's TransformComponent position
    enemies,           \* live enemies in query order: [place, damage]
    phase,             \* 0 between ticks, else the next system to run
    tickDelta,         \* the delta of the tick under way
    isGameOver,        \* MainScene.isGameOver
    playerDeathEvents, \* how often 'player-death' was emitted
    hitters,           \* enemies whose takeDamage succeeded in the latest
                       \* CollisionSystem update
    hadHit,            \* a contact damage was applied before
    sinceHit,          \* sum of the ComponentUpdateSystem deltas since the
                       \* last applied contact damage, capped
    pendingDecays      \* delayed callbacks of applyKnockback not yet run

combatVars == <<playerPlace, enemies, phase, tickDelta, isGameOver,
                playerDeathEvents, hitters, hadHit, sinceHit, pendingDecays>>

VARIABLES
    \* ---- enemies and projectiles (CollisionSystem pass B, melee) ----
    enemyEntities,      \* enemies in creation order:
                        \* [id, place, hc, live, staged, listed, scored,
                        \* removeCalls]: listed is membership of
                        \* MainScene.enemies, scored and removeCalls count
                        \* the addScore and removeEntity calls for the enemy
    projectileEntities, \* projectiles in creation order:
                        \* [id, place, live, staged, hits]
    enemiesMade,        \* enemies created so far
    projectilesMade,    \* projectiles created so far
    enemyDeathEvents,   \* per enemy id: how often 'enemy-death' was emitted
    step,               \* 0 between ticks, else the next system to run
    seenProjectiles,    \* ids in the query result of the latest
                        \* ProjectileSystem.update
    passHits            \* <<projectile id, enemy id>> of the damage applied
                        \* by the latest CollisionSystem update

projectileVars == <<enemyEntities, projectileEntities, enemiesMade,
                    projectilesMade, enemyDeathEvents, step, seenProjectiles,
                    passHits>>

VARIABLES
    \* ---- one enemy under knockback (CollisionSystem.applyEnemyKnockback) ----
    isKnockbackActive,  \* EnemyComponent.isKnockbackActive
    enemyVelocity,      \* who wrote the enemy's velocity last
    knockTimers,        \* pending delayedCall(500) callbacks: ms left, in
                        \* the order they were scheduled
    enemyWasHit,        \* the enemy has been hit
    sinceEnemyHit       \* ms of scene clock since the latest hit, capped

knockbackVars == <<isKnockbackActive, enemyVelocity, knockTimers, enemyWasHit,
                   sinceEnemyHit>>

VARIABLES
    \* ---- one VelocityComponent ----
    velocity,           \* [vx, vy, maxSpeed, friction]
    lastPush            \* the knockback that wrote it last, if any did:
                        \* [owner, force, source, target]

velocityVars == <<velocity, lastPush>>

VARIABLES
    \* ---- one moving entity (MovementSystem, ProjectileSystem) ----
    mover,              \* [id, kind, x, y, velocity, lifetime, state, staged]
    movePhase,          \* 0 between ticks, else the next system to run
    moveDelta,          \* the deltaTime of the tick under way
    moversMade,         \* entities created so far
    removedIds          \* ids of the entities a flush has removed

moveVars == <<mover, movePhase, moveDelta, moversMade, removedIds>>

\* the variables of the specifications added after SpecCombat
laterVars == <<projectileVars, knockbackVars, velocityVars, moveVars>>

\* what the World's own calls leave alone, the query history apart
otherVars ==
    <<healthVars, combatVars, laterVars, entityVars, aiVars, sceneVars>>

nonWorldVars == <<otherVars, asked>>

vars == <<worldVars, healthVars, combatVars, laterVars>>

(***************************************************************************)
(* JS Set semantics on sequences: insertion order, no duplicates.          *)
(***************************************************************************)
Range(s) == {s[i] : i \in 1..Len(s)}

\* Set.prototype.add: an element already present keeps its position
SetAdd(s, x) == IF x \in Range(s) THEN s ELSE Append(s, x)

\* Set.prototype.delete
SetDelete(s, x) == SelectSeq(s, LAMBDA y : y # x)

(***************************************************************************)
(* World.createEntity / World.removeEntity: staging only.                  *)
(***************************************************************************)
\* a plausible bug: the new entity is put straight into the live set
CreateStageImmediate(ents, adds, e) ==
    [entities |-> SetAdd(ents, e), entitiesToAdd |-> adds]

\* createEntity: this.entitiesToAdd.add(entity)
CreateStage(ents, adds, e) ==
    [entities |-> ents, entitiesToAdd |-> SetAdd(adds, e)]

\* a plausible bug: the entity is deleted from the live set at once
RemoveStageImmediate(ents, rems, e) ==
    [entities |-> SetDelete(ents, e), entitiesToRemove |-> rems]

\* removeEntity: this.entitiesToRemove.add(entity)
RemoveStage(ents, rems, e) ==
    [entities |-> ents, entitiesToRemove |-> SetAdd(rems, e)]

(***************************************************************************)
(* Entity.destroy: call destroy() on every component, then clear the map.  *)
(* st is [components, released].                                           *)
(***************************************************************************)
\* a plausible bug: the components are released but the map is not cleared
EntityDestroyNoClear(st, e) ==
    [components |-> st.components,
     released |-> [st.released EXCEPT ![e] =
                      [k \in Kinds |-> IF k \in st.components[e]
                                       THEN @[k] + 1 ELSE @[k]]]]

EntityDestroy(st, e) ==
    [components |-> [st.components EXCEPT ![e] = {}],
     released |-> [st.released EXCEPT ![e] =
                      [k \in Kinds |-> IF k \in st.components[e]
                                       THEN @[k] + 1 ELSE @[k]]]]

(***************************************************************************)
(* The flush at the head of World.update.                                  *)
(***************************************************************************)
RECURSIVE AdmitAll(_, _)
\* for (const entity of Array.from(this.entitiesToAdd)) this.entities.add(entity)
AdmitAll(ents, adds) ==
    IF adds = <<>> THEN ents
    ELSE AdmitAll(SetAdd(ents, Head(adds)), Tail(adds))

RECURSIVE DeleteAll(_, _)
\* for (const entity of Array.from(this.entitiesToRemove)) this.entities.delete(entity)
DeleteAll(ents, rems) ==
    IF rems = <<>> THEN ents
    ELSE DeleteAll(SetDelete(ents, Head(rems)), Tail(rems))

RECURSIVE DestroyAll(_, _)
\* ... entity.destroy() for each staged removal, in order
DestroyAll(st, rems) ==
    IF rems = <<>> THEN st
    ELSE DestroyAll(EntityDestroy(st, Head(rems)), Tail(rems))

\* a plausible bug: the two steps of the flush in the other order
FlushLiveRemoveFirst(ents, adds, rems) == AdmitAll(DeleteAll(ents, rems), adds)

\* first step admits, second step removes
FlushLive(ents, adds, rems) == DeleteAll(AdmitAll(ents, adds), rems)

(***************************************************************************)
(* World.getEntitiesWith / Entity.hasComponents                            *)
(***************************************************************************)
hasComponents(e, kinds) == \A k \in kinds : k \in components[e]

\* a plausible bug: some() in place of every()
getEntitiesWithAny(kinds) ==
    SelectSeq(entities, LAMBDA e : \E k \in kinds : k \in components[e])

getEntitiesWith(kinds) ==
    SelectSeq(entities, LAMBDA e : hasComponents(e, kinds))

(***************************************************************************)
(* The catch block of the dispatch loop: what happens to the loop and to   *)
(* the faulting system when systems[i].update throws.                      *)
(***************************************************************************)
\* a plausible bug: the commented-out system.setEnabled(false) is active
OnSystemErrorDisable(i) ==
    [pc |-> i + 1, propagated |-> FALSE,
     enabled |-> [enabled EXCEPT ![systems[i]] = FALSE]]

\* console.error, nothing else: the loop goes on with the next system
OnSystemError(i) ==
    [pc |-> i + 1, propagated |-> FALSE, enabled |-> enabled]

\* the system objects MainScene.create registers, in the order of its
\* addSystem calls
ComponentUpdateSystem == 11
MovementSystem == 12
PlayerInputSystem == 13
EnemyAISystem == 14
EnemyVisualSystem == 15
CollisionSystem == 16
HealthBarSystem == 17
ProjectileSystem == 18

SceneSystems ==
    <<ComponentUpdateSystem, MovementSystem, PlayerInputSystem, EnemyAISystem,
      EnemyVisualSystem, CollisionSystem, HealthBarSystem, ProjectileSystem>>

\* System.getPriority of the registered system objects.  The base class
\* returns 0 and no system of the scene overrides it; the other systems of
\* the model override it so that both ties and inversions occur.
getPriority(s) == IF s > MaxSystems THEN 0 ELSE s % 2

RECURSIVE InsertByPriority(_, _)
\* place of x after a stable sort of a sorted array with x pushed at its end
InsertByPriority(sorted, x) ==
    IF sorted = <<>> THEN <<x>>
    ELSE IF getPriority(Head(sorted)) <= getPriority(x)
         THEN <<Head(sorted)>> \o InsertByPriority(Tail(sorted), x)
         ELSE <<x>> \o sorted

RECURSIVE SortByPriority(_)
\* Array.prototype.sort((a, b) => a.getPriority() - b.getPriority()): stable
SortByPriority(arr) ==
    IF arr = <<>> THEN <<>>
    ELSE InsertByPriority(SortByPriority(SubSeq(arr, 1, Len(arr) - 1)),
                          arr[Len(arr)])

(***************************************************************************)
(* One Entity with its component instances.  st is [slots, hookCalls].     *)
(***************************************************************************)
InstanceIds == 1..MaxInstances

\* component.destroy?.() on instance i
CallHook(calls, i) ==
    [calls EXCEPT ![i] = IF @ < MaxHookCalls THEN @ + 1 ELSE @]

\* Entity.addComponent: this.components.set(componentType, component)
addComponent(st, k, i) ==
    [slots |-> [st.slots EXCEPT ![k] = i], hookCalls |-> st.hookCalls]

\* a plausible bug: the hook is called and the instance stays in the map
removeComponentNoDelete(st, k) ==
    IF st.slots[k] = 0 THEN st
    ELSE [slots |-> st.slots,
          hookCalls |-> CallHook(st.hookCalls, st.slots[k])]

\* Entity.removeComponent: destroy the instance, delete it from the map
removeComponent(st, k) ==
    IF st.slots[k] = 0 THEN st
    ELSE [slots |-> [st.slots EXCEPT ![k] = 0],
          hookCalls |-> CallHook(st.hookCalls, st.slots[k])]

\* Entity.destroy: destroy every stored instance, then clear the map
destroyEntity(st) ==
    [slots |-> [k \in Kinds |-> 0],
     hookCalls |-> [i \in InstanceIds |->
                      IF \E k \in Kinds : st.slots[k] = i
                      THEN CallHook(st.hookCalls, i)[i]
                      ELSE st.hookCalls[i]]]

entityOthers ==
    <<worldCore, asked, healthVars, combatVars, laterVars, aiVars, sceneVars>>

\* MainScene.create has staged the player at the centre of the field; no
\* enemy exists, no melee scan was made
InitEnemyAI ==
    /\ aiEnemies = <<>>
    /\ aiPlayer = [x |-> 400, y |-> 300, state |-> "pending", staged |-> FALSE]
    /\ aiPhase = 0
    /\ aiDelta = 0
    /\ aiTicks = 0
    /\ aiTimers = <<>>
    /\ visualEnabled = TRUE
    /\ attacks = 0
    /\ lastAttack = [x |-> 0, y |-> 0, range |-> 0, damage |-> 0]
    /\ hitEnemies = <<>>

\* no distance test has been made
NoCase ==
    [a |-> <<400, 300>>, b |-> <<400, 300>>, range |-> 0, hit |-> FALSE,
     done |-> FALSE]

InitThreshold ==
    /\ contactCase = NoCase
    /\ shotCase = NoCase
    /\ meleeCase = NoCase

\* new PlayerComponent(): no cooldown is running
InitSkill ==
    /\ skillCooldown = 0
    /\ skillReturn = "none"
    /\ skillDelta = 0
    /\ skillSince = 0
    /\ skillUses = 0

\* new Entity(scene), returned by World.createEntity
InitEntity ==
    /\ slots = [k \in Kinds |-> 0]
    /\ hookCalls = [i \in InstanceIds |-> 0]
    /\ instancesMade = 0
    /\ membership = "staged"
    /\ removalStaged = FALSE

\* entity.addComponent(new K(...))
EntityAddComponent(k) ==
    /\ instancesMade < MaxInstances
    /\ instancesMade' = instancesMade + 1
    /\ LET st == addComponent([slots |-> slots, hookCalls |-> hookCalls], k,
                              instancesMade + 1) IN
         /\ slots' = st.slots
         /\ hookCalls' = st.hookCalls
    /\ UNCHANGED <<membership, removalStaged>>
    /\ UNCHANGED entityOthers

\* entity.removeComponent(K) for a kind the entity holds
EntityRemoveComponent(k) ==
    /\ slots[k] # 0
    /\ LET st == removeComponent([slots |-> slots, hookCalls |-> hookCalls], k) IN
         /\ slots' = st.slots
         /\ hookCalls' = st.hookCalls
    /\ UNCHANGED <<instancesMade, membership, removalStaged>>
    /\ UNCHANGED entityOthers

\* world.removeEntity(entity): this.entitiesToRemove.add(entity), also for
\* an entity an earlier flush has removed
EntityRemove ==
    /\ ~removalStaged
    /\ removalStaged' = TRUE
    /\ UNCHANGED <<slots, hookCalls, instancesMade, membership>>
    /\ UNCHANGED entityOthers

\* the flush of World.update: admit the entity if it is staged for admission,
\* then, if it is staged for removal, delete it and call entity.destroy()
EntityFlush ==
    /\ membership = "staged" \/ removalStaged
    /\ membership' = IF removalStaged THEN "removed"
                     ELSE IF membership = "staged" THEN "live" ELSE membership
    /\ LET st == IF removalStaged
                 THEN destroyEntity([slots |-> slots, hookCalls |-> hookCalls])
                 ELSE [slots |-> slots, hookCalls |-> hookCalls] IN
         /\ slots' = st.slots
         /\ hookCalls' = st.hookCalls
    /\ removalStaged' = FALSE
    /\ UNCHANGED instancesMade
    /\ UNCHANGED entityOthers

\* World.clear: entity.destroy() for the entities of the live set, then the
\* live set and both queues are emptied
EntityClear ==
    /\ membership \in {"staged", "live"}
    /\ LET st == IF membership = "live"
                 THEN destroyEntity([slots |-> slots, hookCalls |-> hookCalls])
                 ELSE [slots |-> slots, hookCalls |-> hookCalls] IN
         /\ slots' = st.slots
         /\ hookCalls' = st.hookCalls
    /\ membership' = "cleared"
    /\ removalStaged' = FALSE
    /\ UNCHANGED instancesMade
    /\ UNCHANGED entityOthers

(***************************************************************************)
(* Initial state: new World(scene).                                        *)
(***************************************************************************)
InitWorld ==
    /\ nextId = 1
    /\ entities = <<>>
    /\ entitiesToAdd = <<>>
    /\ entitiesToRemove = <<>>
    /\ components = [e \in EntityIds |-> {}]
    /\ released = [e \in EntityIds |-> [k \in Kinds |-> 0]]
    /\ systems = <<>>
    /\ enabled = [s \in SysIds \cup Range(SceneSystems) |-> TRUE]
    /\ pc = 0
    /\ running = FALSE
    /\ tickLog = <<>>
    /\ propagated = FALSE
    /\ held = <<>>
    /\ asked = {}
    /\ InitEntity
    /\ InitEnemyAI
    /\ InitSkill
    /\ InitThreshold
    /\ threw = {}
    /\ fresh = {}
    /\ doomed = {}
    /\ destroyed = {}

\* a caller of the World's API exists: a collaborator callback between
\* ticks, or the system whose update is executing
CanCall == pc = 0 \/ running

created == 1..(nextId - 1)

(***************************************************************************)
(* World API calls                                                         *)
(***************************************************************************)
CreateEntity ==
    /\ CanCall
    /\ nextId <= MaxEntities
    /\ LET r == CreateStage(entities, entitiesToAdd, nextId) IN
         /\ entities' = r.entities
         /\ entitiesToAdd' = r.entitiesToAdd
    /\ nextId' = nextId + 1
    /\ fresh' = fresh \cup {nextId}
    /\ UNCHANGED <<entitiesToRemove, components, released, systems, enabled,
                   pc, running, tickLog, propagated, held, threw, doomed,
                   destroyed>>
    /\ UNCHANGED nonWorldVars

RemoveEntity(e) ==
    /\ CanCall
    /\ e \in created
    /\ LET r == RemoveStage(entities, entitiesToRemove, e) IN
         /\ entities' = r.entities
         /\ entitiesToRemove' = r.entitiesToRemove
    /\ doomed' = IF e \in fresh THEN doomed \cup {e} ELSE doomed
    /\ UNCHANGED <<nextId, entitiesToAdd, components, released, systems,
                   enabled, pc, running, tickLog, propagated, held, threw,
                   destroyed,
                   fresh>>
    /\ UNCHANGED nonWorldVars

\* Entity.addComponent: this.components.set(componentType, component)
AddComponent(e, k) ==
    /\ CanCall
    /\ e \in created
    /\ e \notin destroyed
    /\ components' = [components EXCEPT ![e] = @ \cup {k}]
    /\ UNCHANGED <<nextId, entities, entitiesToAdd, entitiesToRemove, released,
                   systems, enabled, pc, running, tickLog, propagated, held,
                   threw, doomed, destroyed,
                   fresh>>
    /\ UNCHANGED nonWorldVars

\* the executing system keeps the array returned by getEntitiesWith(...kinds)
Query(kinds) ==
    /\ running
    /\ held' = getEntitiesWith(kinds)
    /\ asked' = kinds
    /\ UNCHANGED <<nextId, entities, entitiesToAdd, entitiesToRemove,
                   components, released, systems, enabled, pc, running,
                   tickLog, propagated, threw, doomed, destroyed,
                   fresh>>
    /\ UNCHANGED otherVars

\* World.addSystem: push, then sort by priority
AddSystem(s) ==
    /\ pc = 0
    /\ s \notin Range(systems)
    /\ systems' = SortByPriority(Append(systems, s))
    /\ UNCHANGED <<nextId, entities, entitiesToAdd, entitiesToRemove,
                   components, released, enabled, pc, running, tickLog,
                   propagated, held, threw, doomed, destroyed,
                   fresh>>
    /\ UNCHANGED nonWorldVars

RECURSIVE addSystems(_, _)
\* World.addSystem for each system of xs in turn: push, then sort
addSystems(arr, xs) ==
    IF xs = <<>> THEN arr
    ELSE addSystems(SortByPriority(Append(arr, Head(xs))), Tail(xs))

\* MainScene.create: the addSystem calls of the scene
SceneCreate ==
    /\ pc = 0
    /\ systems = <<>>
    /\ systems' = addSystems(systems, SceneSystems)
    /\ UNCHANGED <<nextId, entities, entitiesToAdd, entitiesToRemove,
                   components, released, enabled, pc, running, tickLog,
                   propagated, held, threw, doomed, destroyed,
                   fresh>>
    /\ UNCHANGED nonWorldVars

\* World.removeSystem: findIndex of the system, splice(index, 1) on the array
\* the dispatch loop iterates; the system object keeps its enabled flag
RemoveSystem(s) ==
    /\ CanCall
    /\ s \in Range(systems)
    /\ systems' = SelectSeq(systems, LAMBDA x : x # s)
    /\ UNCHANGED <<nextId, entities, entitiesToAdd, entitiesToRemove,
                   components, released, enabled, pc, running, tickLog,
                   propagated, held, threw, doomed, destroyed,
                   fresh>>
    /\ UNCHANGED nonWorldVars

\* System.setEnabled
SetEnabled(s, b) ==
    /\ CanCall
    /\ s \in Range(systems)
    /\ enabled' = [enabled EXCEPT ![s] = b]
    /\ UNCHANGED <<nextId, entities, entitiesToAdd, entitiesToRemove,
                   components, released, systems, pc, running, tickLog,
                   propagated, held, threw, doomed, destroyed,
                   fresh>>
    /\ UNCHANGED nonWorldVars

(***************************************************************************)
(* World.update(deltaTime)                                                 *)
(***************************************************************************)
\* steps one and two: admit the staged creations, destroy the staged removals
UpdateBegin ==
    /\ pc = 0
    /\ ~propagated
    /\ entities' = FlushLive(entities, entitiesToAdd, entitiesToRemove)
    /\ LET st == DestroyAll([components |-> components, released |-> released],
                            entitiesToRemove) IN
         /\ components' = st.components
         /\ released' = st.released
    /\ destroyed' = destroyed \cup Range(entitiesToRemove)
    /\ entitiesToAdd' = <<>>
    /\ entitiesToRemove' = <<>>
    /\ pc' = 1
    /\ tickLog' = <<>>
    /\ threw' = {}
    /\ fresh' = {}
    /\ UNCHANGED <<nextId, systems, enabled, running, propagated, held, doomed>>
    /\ UNCHANGED nonWorldVars

\* step three, a disabled system: if (system.enabled) is false
SystemSkip ==
    /\ pc \in 1..Len(systems)
    /\ ~running
    /\ ~enabled[systems[pc]]
    /\ pc' = pc + 1
    /\ UNCHANGED <<nextId, entities, entitiesToAdd, entitiesToRemove,
                   components, released, systems, enabled, running, tickLog,
                   propagated, held, threw, doomed, destroyed,
                   fresh>>
    /\ UNCHANGED nonWorldVars

\* step three, an enabled system: system.update(deltaTime) is entered
SystemEnter ==
    /\ pc \in 1..Len(systems)
    /\ ~running
    /\ enabled[systems[pc]]
    /\ running' = TRUE
    /\ tickLog' = Append(tickLog, systems[pc])
    /\ UNCHANGED <<nextId, entities, entitiesToAdd, entitiesToRemove,
                   components, released, systems, enabled, pc, propagated,
                   held, threw, doomed, destroyed,
                   fresh>>
    /\ UNCHANGED nonWorldVars

\* system.update returns normally; its locals are gone
SystemReturn ==
    /\ pc >= 1
    /\ running
    /\ running' = FALSE
    /\ held' = <<>>
    /\ pc' = pc + 1
    /\ UNCHANGED <<nextId, entities, entitiesToAdd, entitiesToRemove,
                   components, released, systems, enabled, tickLog, propagated,
                   threw, doomed, destroyed,
                   fresh>>
    /\ UNCHANGED nonWorldVars

\* system.update throws: the catch block runs
SystemThrow ==
    /\ pc >= 1
    /\ running
    /\ running' = FALSE
    /\ held' = <<>>
    /\ threw' = threw \cup {tickLog[Len(tickLog)]}
    /\ LET r == OnSystemError(pc) IN
         /\ pc' = r.pc
         /\ propagated' = r.propagated
         /\ enabled' = r.enabled
    /\ UNCHANGED <<nextId, entities, entitiesToAdd, entitiesToRemove,
                   components, released, systems, tickLog, doomed, destroyed,
                   fresh>>
    /\ UNCHANGED nonWorldVars

\* the loop is past the last system: World.update returns
UpdateEnd ==
    /\ pc > Len(systems)
    /\ ~running
    /\ pc' = 0
    /\ tickLog' = <<>>
    /\ threw' = {}
    /\ UNCHANGED <<nextId, entities, entitiesToAdd, entitiesToRemove,
                   components, released, systems, enabled, running,
                   propagated, held, doomed, destroyed,
                   fresh>>
    /\ UNCHANGED nonWorldVars

(***************************************************************************)
(* HealthComponent                                                         *)
(***************************************************************************)
\* new HealthComponent(maxHealth)
NewHealth(maxHealth) ==
    [currentHealth |-> maxHealth, maxHealth |-> maxHealth,
     isInvincible |-> FALSE, invincibleTime |-> 0, isDead |-> FALSE]

Max(a, b) == IF a >= b THEN a ELSE b
Min(a, b) == IF a <= b THEN a ELSE b

\* a plausible bug: the subtraction is not floored at 0
takeDamageNoFloor(c, amount, ignoreInvincible) ==
    IF ~ignoreInvincible /\ (c.isInvincible \/ c.isDead)
    THEN [h |-> c, ret |-> FALSE]
    ELSE IF c.isDead THEN [h |-> c, ret |-> FALSE]
    ELSE LET left == c.currentHealth - amount IN
         [h |-> [c EXCEPT !.currentHealth = left,
                          !.isDead = (left <= 0)],
          ret |-> TRUE]

\* a plausible bug: the second guard, if (this.isDead) return false, is missing
takeDamageNoDeadGuard(c, amount, ignoreInvincible) ==
    IF ~ignoreInvincible /\ (c.isInvincible \/ c.isDead)
    THEN [h |-> c, ret |-> FALSE]
    ELSE LET left == Max(0, c.currentHealth - amount) IN
         [h |-> [c EXCEPT !.currentHealth = left,
                          !.isDead = (c.isDead \/ left <= 0)],
          ret |-> TRUE]

\* HealthComponent.takeDamage: the component after the call and the value
\* returned
takeDamage(c, amount, ignoreInvincible) ==
    IF ~ignoreInvincible /\ (c.isInvincible \/ c.isDead)
    THEN [h |-> c, ret |-> FALSE]
    ELSE IF c.isDead THEN [h |-> c, ret |-> FALSE]
    ELSE LET left == Max(0, c.currentHealth - amount) IN
         [h |-> [c EXCEPT !.currentHealth = left,
                          !.isDead = (c.isDead \/ left <= 0)],
          ret |-> TRUE]

\* HealthComponent.heal
heal(c, amount) ==
    IF c.isDead THEN c
    ELSE [c EXCEPT !.currentHealth = Min(c.maxHealth, c.currentHealth + amount)]

\* HealthComponent.setInvincible
setInvincible(c, duration) ==
    [c EXCEPT !.isInvincible = TRUE, !.invincibleTime = duration]

\* a plausible bug: a misplaced brace clears the flag on every update
healthUpdateClearsFlag(c, deltaTime) ==
    IF c.isInvincible /\ c.invincibleTime > 0
    THEN [c EXCEPT !.isInvincible = FALSE,
                   !.invincibleTime = Max(0, c.invincibleTime - deltaTime)]
    ELSE c

\* HealthComponent.update
healthUpdate(c, deltaTime) ==
    IF c.isInvincible /\ c.invincibleTime > 0
    THEN LET t == c.invincibleTime - deltaTime IN
         IF t <= 0
         THEN [c EXCEPT !.isInvincible = FALSE, !.invincibleTime = 0]
         ELSE [c EXCEPT !.invincibleTime = t]
    ELSE c

\* arguments of the calls made on the component of SpecHealth
MaxHealths == {25, 100}
Amounts == {0, 25, 30}
Durations == {0, 500, 1000}
Deltas == {0, 100, 250}

NoCall == [op |-> "none", ignoreInvincible |-> FALSE, ret |-> FALSE]

InitHealth(maxHealth) ==
    /\ h = NewHealth(maxHealth)
    /\ lastCall = NoCall
    /\ invDur = 0
    /\ invSince = 0

CallTakeDamage(amount, ignoreInvincible) ==
    /\ LET r == takeDamage(h, amount, ignoreInvincible) IN
         /\ h' = r.h
         /\ lastCall' = [op |-> "takeDamage",
                         ignoreInvincible |-> ignoreInvincible, ret |-> r.ret]
    /\ UNCHANGED <<invDur, invSince>>
    /\ UNCHANGED <<worldVars, combatVars, laterVars>>

CallHeal(amount) ==
    /\ h' = heal(h, amount)
    /\ lastCall' = [NoCall EXCEPT !.op = "heal"]
    /\ UNCHANGED <<invDur, invSince>>
    /\ UNCHANGED <<worldVars, combatVars, laterVars>>

CallSetInvincible(duration) ==
    /\ h' = setInvincible(h, duration)
    /\ lastCall' = [NoCall EXCEPT !.op = "setInvincible"]
    /\ invDur' = duration
    /\ invSince' = 0
    /\ UNCHANGED <<worldVars, combatVars, laterVars>>

\* ComponentUpdateSystem.update reaches the component: health.update(deltaTime)
CallUpdate(deltaTime) ==
    /\ h' = healthUpdate(h, deltaTime)
    /\ lastCall' = [NoCall EXCEPT !.op = "update"]
    /\ invSince' = Min(invDur, invSince + deltaTime)
    /\ UNCHANGED invDur
    /\ UNCHANGED <<worldVars, combatVars, laterVars>>

(***************************************************************************)
(* VelocityComponent.  The code computes in IEEE doubles, where every      *)
(* arithmetic result is rounded to the nearest representable number; the   *)
(* model's representable numbers are the integers, and a quotient times a  *)
(* factor is rounded once.                                                 *)
(***************************************************************************)
Abs(a) == IF a < 0 THEN -a ELSE a

\* a / b rounded to the nearest integer, for b > 0
RoundDiv(a, b) == (2 * a + b) \div (2 * b)

\* the least r in lo..hi with sqrt(n) < r + 1/2, found by bisection
RECURSIVE SqrtSearch(_, _, _)
SqrtSearch(n, lo, hi) ==
    IF lo >= hi THEN lo
    ELSE LET mid == (lo + hi) \div 2 IN
         IF 4 * n < (2 * mid + 1) * (2 * mid + 1)
         THEN SqrtSearch(n, lo, mid)
         ELSE SqrtSearch(n, mid + 1, hi)

\* Math.sqrt(vx * vx + vy * vy) rounded to the nearest integer
RoundSqrt(vx, vy) ==
    SqrtSearch(vx * vx + vy * vy, Max(Abs(vx), Abs(vy)), Abs(vx) + Abs(vy))

\* new VelocityComponent(0, 0, maxSpeed, friction)
NewVelocity(maxSpeed, friction) ==
    [vx |-> 0, vy |-> 0, maxSpeed |-> maxSpeed, friction |-> friction]

\* VelocityComponent.limitSpeed
limitSpeed(v) ==
    LET speed == RoundSqrt(v.vx, v.vy) IN
    IF speed > v.maxSpeed
    THEN [v EXCEPT !.vx = RoundDiv(v.vx * v.maxSpeed, speed),
                   !.vy = RoundDiv(v.vy * v.maxSpeed, speed)]
    ELSE v

\* VelocityComponent.setVelocity
setVelocity(v, vx, vy) == limitSpeed([v EXCEPT !.vx = vx, !.vy = vy])

\* a plausible bug: the sum is not passed to limitSpeed
addVelocityNoLimit(v, dvx, dvy) ==
    [v EXCEPT !.vx = @ + dvx, !.vy = @ + dvy]

\* VelocityComponent.addVelocity
addVelocity(v, dvx, dvy) ==
    limitSpeed([v EXCEPT !.vx = @ + dvx, !.vy = @ + dvy])

\* VelocityComponent.applyFriction; the factor is kept in thousandths
applyFriction(v, deltaTime) ==
    IF v.friction > 0
    THEN LET factor == Max(0, 1000 - v.friction * deltaTime) IN
         [v EXCEPT !.vx = RoundDiv(@ * factor, 1000),
                   !.vy = RoundDiv(@ * factor, 1000)]
    ELSE v

\* constants of the program
PlayerMaxSpeed == 200
EnemyMaxSpeed == 100
PlayerMovementSpeed == 200
EnemyMovementSpeed == 100
ContactKnockbackForce == 100
ProjectileKnockbackForce == 150
MeleeKnockbackForce == 200

\* Math.cos and Math.sin of Phaser.Math.Angle.Between(source, target), in
\* thousandths, from the distance in hundredths; the angle between two equal
\* points is Math.atan2(0, 0) = 0
Direction(source, target) ==
    LET dx == target[1] - source[1]
        dy == target[2] - source[2]
        dist == RoundSqrt(100 * dx, 100 * dy)
    IN  IF dist = 0 THEN <<1000, 0>>
        ELSE <<RoundDiv(dx * 100000, dist), RoundDiv(dy * 100000, dist)>>

\* a plausible bug: the angle is taken from the target to the source
applyKnockbackTowards(v, source, target, force) ==
    LET d == Direction(target, source) IN
    setVelocity(v, RoundDiv(d[1] * force, 1000), RoundDiv(d[2] * force, 1000))

\* the velocity written by CollisionSystem.applyKnockback and
\* CollisionSystem.applyEnemyKnockback:
\* setVelocity(Math.cos(angle) * force, Math.sin(angle) * force)
applyKnockback(v, source, target, force) ==
    LET d == Direction(source, target) IN
    setVelocity(v, RoundDiv(d[1] * force, 1000), RoundDiv(d[2] * force, 1000))

\* the delayed callback: setVelocity(velocity.vx * f, velocity.vy * f), with
\* the factor f in tenths
decayVelocity(v, tenths) ==
    setVelocity(v, RoundDiv(v.vx * tenths, 10), RoundDiv(v.vy * tenths, 10))

(***************************************************************************)
(* The scene tick: ComponentUpdateSystem, movement, CollisionSystem        *)
(***************************************************************************)
\* enemies alive at once (a bound of the model)
MaxEnemies == 2

\* constants of the program
PlayerMaxHealth == 100
EnemyDamage == 25
CollisionDistance == 30
ContactInvincibleMs == 1000

\* positions the transforms take: the spawn point of the player and points
\* at distance 29, exactly 30 and 31 from it
Origin == <<400, 300>>
Places == {Origin, <<400, 329>>, <<418, 324>>, <<400, 331>>}
TickDeltas == {0, 400, 600}

\* a plausible bug: the test is distance <= collisionDistance
WithinOrAt(p, q) ==
    (p[1] - q[1]) * (p[1] - q[1]) + (p[2] - q[2]) * (p[2] - q[2])
        <= CollisionDistance * CollisionDistance

\* Phaser.Math.Distance.Between(p, q) < collisionDistance
Within(p, q) ==
    (p[1] - q[1]) * (p[1] - q[1]) + (p[2] - q[2]) * (p[2] - q[2])
        < CollisionDistance * CollisionDistance

\* HealthComponent.isAlive
isAlive(c) == ~c.isDead

\* a plausible bug: no invincibility is granted after the damage
CollideWithEnemyNoInvincible(st, place, es, i) ==
    IF ~Within(place, es[i].place) THEN st
    ELSE LET r == takeDamage(st.h, es[i].damage, FALSE) IN
         IF ~r.ret THEN st
         ELSE [h |-> r.h,
               events |-> IF isAlive(r.h) THEN st.events ELSE st.events + 1,
               hitters |-> st.hitters \cup {i},
               velocity |-> applyKnockback(st.velocity, es[i].place, place,
                                           ContactKnockbackForce),
               pushes |-> st.pushes + 1]

\* a plausible bug: the death check sits outside the takeDamage branch
CollideWithEnemyEmitOutside(st, place, es, i) ==
    IF ~Within(place, es[i].place) THEN st
    ELSE LET r == takeDamage(st.h, es[i].damage, FALSE)
             hit == IF r.ret
                    THEN [st EXCEPT !.h = setInvincible(r.h, ContactInvincibleMs),
                                    !.hitters = st.hitters \cup {i},
                                    !.velocity =
                                        applyKnockback(st.velocity, es[i].place,
                                            place, ContactKnockbackForce),
                                    !.pushes = st.pushes + 1]
                    ELSE st
         IN  IF isAlive(hit.h) THEN hit
             ELSE [hit EXCEPT !.events = hit.events + 1]

\* a plausible bug: the knockback pulls the player towards the enemy
CollideWithEnemyPushTowards(st, place, es, i) ==
    IF ~Within(place, es[i].place) THEN st
    ELSE LET r == takeDamage(st.h, es[i].damage, FALSE) IN
         IF ~r.ret THEN st
         ELSE LET c == setInvincible(r.h, ContactInvincibleMs) IN
              [h |-> c,
               events |-> IF isAlive(c) THEN st.events ELSE st.events + 1,
               hitters |-> st.hitters \cup {i},
               velocity |-> applyKnockbackTowards(st.velocity, es[i].place,
                                place, ContactKnockbackForce),
               pushes |-> st.pushes + 1]

\* the body of the loop of checkPlayerEnemyCollisions for enemy i, on
\* st = [h, events, hitters, velocity, pushes]: the player's HealthComponent,
\* the count of 'player-death' emissions, the enemies whose damage was
\* applied, the player's VelocityComponent and the count of applyKnockback
\* calls (each schedules one delayed callback)
CollideWithEnemy(st, place, es, i) ==
    IF ~Within(place, es[i].place) THEN st
    ELSE LET r == takeDamage(st.h, es[i].damage, FALSE) IN
         IF ~r.ret THEN st
         ELSE LET c == setInvincible(r.h, ContactInvincibleMs) IN
              [h |-> c,
               events |-> IF isAlive(c) THEN st.events ELSE st.events + 1,
               hitters |-> st.hitters \cup {i},
               velocity |-> applyKnockback(st.velocity, es[i].place, place,
                                           ContactKnockbackForce),
               pushes |-> st.pushes + 1]

\* CollisionSystem.checkPlayerEnemyCollisions: the loop over the enemies in
\* query order, from enemy i on
RECURSIVE checkPlayerEnemyCollisions(_, _, _, _)
checkPlayerEnemyCollisions(st, place, es, i) ==
    IF i > Len(es) THEN st
    ELSE checkPlayerEnemyCollisions(CollideWithEnemy(st, place, es, i),
                                    place, es, i + 1)

InitScene ==
    /\ playerPlace = Origin
    /\ enemies = <<>>
    /\ phase = 0
    /\ tickDelta = 0
    /\ isGameOver = FALSE
    /\ playerDeathEvents = 0
    /\ hitters = {}
    /\ hadHit = FALSE
    /\ sinceHit = 0
    /\ pendingDecays = 0

\* MainScene.update: nothing once the game is over, else World.update(delta)
SceneUpdate(delta) ==
    /\ phase = 0
    /\ ~isGameOver
    /\ phase' = 1
    /\ tickDelta' = delta
    /\ hitters' = {}
    /\ UNCHANGED <<playerPlace, enemies, isGameOver, playerDeathEvents,
                   hadHit, sinceHit, pendingDecays>>
    /\ UNCHANGED <<worldVars, healthVars, laterVars>>

\* ComponentUpdateSystem.update: health.update(deltaTime) of the player
ComponentUpdateStep ==
    /\ phase = 1
    /\ h' = healthUpdate(h, tickDelta)
    /\ sinceHit' = Min(ContactInvincibleMs, sinceHit + tickDelta)
    /\ phase' = 2
    /\ tickDelta' = 0
    /\ UNCHANGED <<playerPlace, enemies, isGameOver, playerDeathEvents,
                   hitters, hadHit, pendingDecays>>
    /\ UNCHANGED <<worldVars, lastCall, invDur, invSince, laterVars>>

\* the arrow keys held down, as moveX and moveY; the game is played with the
\* keyboard, no touch is under way
Moves == {<<0, 0>>, <<-1, 1>>}

\* PlayerInputSystem.handleKeyboardMovement
handleKeyboardMovement(v, move, touching) ==
    IF move # <<0, 0>>
    THEN LET length == RoundSqrt(1000 * move[1], 1000 * move[2]) IN
         setVelocity(v, RoundDiv(move[1] * 1000 * PlayerMovementSpeed, length),
                        RoundDiv(move[2] * 1000 * PlayerMovementSpeed, length))
    ELSE IF ~touching THEN setVelocity(v, 0, 0) ELSE v

\* MovementSystem.update writes every transform, any place can result; then
\* PlayerInputSystem.update, the next system of the list, writes the player's
\* velocity
MovementStep ==
    /\ phase = 2
    /\ playerPlace' \in Places
    /\ enemies' \in [1..Len(enemies) -> [place : Places, damage : {EnemyDamage}]]
    /\ \E move \in Moves :
          velocity' = handleKeyboardMovement(velocity, move, FALSE)
    /\ phase' = 3
    /\ UNCHANGED <<tickDelta, isGameOver, playerDeathEvents, hitters, hadHit,
                   sinceHit, pendingDecays>>
    /\ UNCHANGED <<worldVars, healthVars, projectileVars, knockbackVars,
                   moveVars, lastPush>>

\* CollisionSystem.update, the player against the enemies
CollisionStep ==
    /\ phase = 3
    /\ LET st == checkPlayerEnemyCollisions(
                     [h |-> h, events |-> playerDeathEvents, hitters |-> {},
                      velocity |-> velocity, pushes |-> 0],
                     playerPlace, enemies, 1)
       IN  /\ h' = st.h
           /\ velocity' = st.velocity
           /\ pendingDecays' = pendingDecays + st.pushes
           /\ playerDeathEvents' = st.events
           /\ isGameOver' = (isGameOver \/ st.events > playerDeathEvents)
           /\ hitters' = st.hitters
           /\ hadHit' = (hadHit \/ st.hitters # {})
           /\ sinceHit' = IF st.hitters # {} THEN 0 ELSE sinceHit
    /\ phase' = 0
    /\ UNCHANGED <<playerPlace, enemies, tickDelta>>
    /\ UNCHANGED <<worldVars, lastCall, invDur, invSince, projectileVars,
                   knockbackVars, moveVars, lastPush>>

\* the callback that applyKnockback scheduled with delayedCall(300, ...) runs
\* when the scene clock gets there, between two ticks
PlayerKnockbackDecay ==
    /\ phase = 0
    /\ pendingDecays > 0
    /\ velocity' = decayVelocity(velocity, 5)
    /\ pendingDecays' = pendingDecays - 1
    /\ UNCHANGED <<playerPlace, enemies, phase, tickDelta, isGameOver,
                   playerDeathEvents, hitters, hadHit, sinceHit>>
    /\ UNCHANGED <<worldVars, healthVars, projectileVars, knockbackVars,
                   moveVars, lastPush>>

\* EntityFactory.createEnemy from MainScene.startWave; the enemy is live from
\* the flush of the next tick
SpawnEnemy(place) ==
    /\ phase = 0
    /\ ~isGameOver
    /\ Len(enemies) < MaxEnemies
    /\ enemies' = Append(enemies, [place |-> place, damage |-> EnemyDamage])
    /\ UNCHANGED <<playerPlace, phase, tickDelta, isGameOver,
                   playerDeathEvents, hitters, hadHit, sinceHit, pendingDecays>>
    /\ UNCHANGED <<worldVars, healthVars, laterVars>>

\* MainScene.handleEnemyDeath: the enemy is gone from the flush of the next
\* tick
EnemyRemoved(i) ==
    /\ phase = 0
    /\ ~isGameOver
    /\ i \in 1..Len(enemies)
    /\ enemies' = SubSeq(enemies, 1, i - 1) \o SubSeq(enemies, i + 1, Len(enemies))
    /\ UNCHANGED <<playerPlace, phase, tickDelta, isGameOver,
                   playerDeathEvents, hitters, hadHit, sinceHit, pendingDecays>>
    /\ UNCHANGED <<worldVars, healthVars, laterVars>>

(***************************************************************************)
(* Enemies and projectiles: CollisionSystem pass B, the melee scan of      *)
(* checkAttackCollisions, and the deferred removal of what they hit.       *)
(* The knockback a hit starts is modelled apart, under SpecKnockback.      *)
(***************************************************************************)
\* enemies and projectiles created in one run (bounds of the model)
MaxEnemiesMade == 2
MaxProjectilesMade == 2

\* constants of the program
ProjectileDamage == 30
ProjectileDistance == 20
AttackRange == 50
AttackDamage == 50

\* health passed to createEnemy: 100 + currentWave * 50 in the first wave
EnemyHealths == {150}
\* positions of the transforms: two enemy positions 20 apart, projectile
\* positions 0 and 19 from the first and 20 and 1 from the second
EnemyPlaces == {<<400, 300>>, <<400, 320>>}
ProjectilePlaces == {<<400, 300>>, <<400, 319>>}
\* attack centres: 50 and 70, and 50 and 30 from the two enemy positions
AttackPoints == {<<400, 250>>, <<400, 350>>}

\* the square of Phaser.Math.Distance.Between(p, q)
Dist2(p, q) ==
    (p[1] - q[1]) * (p[1] - q[1]) + (p[2] - q[2]) * (p[2] - q[2])

\* EntityFactory.createEnemy; the entity waits in entitiesToAdd (live = FALSE)
NewEnemy(id, place, health) ==
    [id |-> id, place |-> place,
     hc |-> [NewHealth(health) EXCEPT !.isInvincible = FALSE,
                                      !.invincibleTime = 0],
     live |-> FALSE, staged |-> FALSE,
     listed |-> TRUE, scored |-> 0, removeCalls |-> 0]

\* EntityFactory.createProjectile; hits counts the enemies it has damaged
NewProjectile(id, place) ==
    [id |-> id, place |-> place, live |-> FALSE, staged |-> FALSE, hits |-> 0]

\* a plausible bug: the enemy is not looked up in MainScene.enemies
handleEnemyDeathUnlisted(es, j) ==
    [es EXCEPT ![j].listed = FALSE,
               ![j].scored = @ + 1,
               ![j].removeCalls = @ + 1,
               ![j].staged = TRUE]

\* a plausible bug: the score is added and removeEntity is not called
handleEnemyDeathScoreOnly(es, j) ==
    IF ~es[j].listed THEN es
    ELSE [es EXCEPT ![j].listed = FALSE,
                    ![j].scored = @ + 1]

\* MainScene.handleEnemyDeath: an enemy still in MainScene.enemies leaves
\* that list, addScore is called for it (it has a TransformComponent) and it
\* is passed to World.removeEntity
handleEnemyDeath(es, j) ==
    IF ~es[j].listed THEN es
    ELSE [es EXCEPT ![j].listed = FALSE,
                    ![j].scored = @ + 1,
                    ![j].removeCalls = @ + 1,
                    ![j].staged = TRUE]

\* events.emit('enemy-death', enemy) with its listener; the count stops at 2
EmitEnemyDeath(st, j) ==
    [st EXCEPT !.es = handleEnemyDeath(st.es, j),
               !.events[st.es[j].id] = IF @ < 2 THEN @ + 1 ELSE @]

\* a plausible bug: the hit grants the enemy the invincibility the player gets
HitEnemyGrantsInvincible(st, ps, i, j) ==
    LET r == takeDamage(st.es[j].hc, ProjectileDamage, TRUE)
        st1 == [st EXCEPT !.es[j].hc = setInvincible(r.h, ContactInvincibleMs),
                          !.toRemove = @ \cup {ps[i].id},
                          !.hits = @ \cup {<<ps[i].id, st.es[j].id>>},
                          !.hitEnemy = TRUE]
    IN  IF isAlive(r.h) THEN st1 ELSE EmitEnemyDeath(st1, j)

\* checkProjectileEnemyCollisions, the branch distance < collisionDistance, on
\* st = [es, events, toRemove, hits, hitEnemy]
HitEnemy(st, ps, i, j) ==
    LET r == takeDamage(st.es[j].hc, ProjectileDamage, TRUE)
        st1 == [st EXCEPT !.es[j].hc = r.h,
                          !.toRemove = @ \cup {ps[i].id},
                          !.hits = @ \cup {<<ps[i].id, st.es[j].id>>},
                          !.hitEnemy = TRUE]
    IN  IF isAlive(r.h) THEN st1 ELSE EmitEnemyDeath(st1, j)

\* a plausible bug: no break after the hit, the projectile goes on to the
\* other enemies
RECURSIVE ScanEnemiesNoBreak(_, _, _, _)
ScanEnemiesNoBreak(st, ps, i, j) ==
    IF j > Len(st.es) THEN st
    ELSE IF ~st.es[j].live THEN ScanEnemiesNoBreak(st, ps, i, j + 1)
    ELSE IF Dist2(ps[i].place, st.es[j].place)
                < ProjectileDistance * ProjectileDistance
         THEN ScanEnemiesNoBreak(HitEnemy(st, ps, i, j), ps, i, j + 1)
         ELSE ScanEnemiesNoBreak(st, ps, i, j + 1)

\* checkProjectileEnemyCollisions, the inner loop: projectile i against the
\* live enemies from j on, left at the first hit
RECURSIVE ScanEnemies(_, _, _, _)
ScanEnemies(st, ps, i, j) ==
    IF j > Len(st.es) THEN st
    ELSE IF ~st.es[j].live THEN ScanEnemies(st, ps, i, j + 1)
    ELSE IF Dist2(ps[i].place, st.es[j].place)
                < ProjectileDistance * ProjectileDistance
         THEN HitEnemy(st, ps, i, j)
         ELSE ScanEnemies(st, ps, i, j + 1)

\* checkProjectileEnemyCollisions, the outer loop: the live projectiles from
\* i on, left by "if (hitEnemy) break" after the first projectile that hit
RECURSIVE ScanProjectiles(_, _, _)
ScanProjectiles(st, ps, i) ==
    IF i > Len(ps) THEN st
    ELSE IF ~ps[i].live THEN ScanProjectiles(st, ps, i + 1)
    ELSE LET st2 == ScanEnemies([st EXCEPT !.hitEnemy = FALSE], ps, i, 1) IN
         IF st2.hitEnemy THEN st2 ELSE ScanProjectiles(st2, ps, i + 1)

\* a plausible bug: the collected projectiles are not passed to removeEntity
StageHitProjectilesForgotten(ps, st) ==
    [i \in DOMAIN ps |->
        [ps[i] EXCEPT !.hits = @ + Cardinality({x \in st.hits : x[1] = ps[i].id})]]

\* checkProjectileEnemyCollisions, the batch removal after the loops
StageHitProjectiles(ps, st) ==
    [i \in DOMAIN ps |->
        IF ps[i].id \in st.toRemove
        THEN [ps[i] EXCEPT !.staged = TRUE,
                           !.hits = @ + Cardinality({x \in st.hits : x[1] = ps[i].id})]
        ELSE ps[i]]

\* CollisionSystem.checkProjectileEnemyCollisions
checkProjectileEnemyCollisions(es, ps, events) ==
    LET st == ScanProjectiles([es |-> es, events |-> events, toRemove |-> {},
                               hits |-> {}, hitEnemy |-> FALSE], ps, 1)
    IN  [es |-> st.es, ps |-> StageHitProjectiles(ps, st),
         events |-> st.events, hits |-> st.hits]

\* CollisionSystem.checkAttackCollisions: the live enemies from j on, on
\* st = [es, events, hitEnemies]
RECURSIVE checkAttackCollisions(_, _, _, _, _)
checkAttackCollisions(st, attack, range, damage, j) ==
    IF j > Len(st.es) THEN st
    ELSE IF ~st.es[j].live \/ Dist2(attack, st.es[j].place) > range * range
    THEN checkAttackCollisions(st, attack, range, damage, j + 1)
    ELSE LET r == takeDamage(st.es[j].hc, damage, TRUE)
             st1 == [st EXCEPT !.es[j].hc = r.h,
                               !.hitEnemies = @ \cup {j}]
             st2 == IF isAlive(r.h) THEN st1 ELSE EmitEnemyDeath(st1, j)
         IN  checkAttackCollisions(st2, attack, range, damage, j + 1)

\* World.update, the two flush loops, on a list of enemies or projectiles:
\* the staged ones are deleted, the created ones are live
FlushList(xs) ==
    LET keep == SelectSeq(xs, LAMBDA x : ~x.staged) IN
    [i \in DOMAIN keep |-> [keep[i] EXCEPT !.live = TRUE]]

InitProjectiles ==
    /\ enemyEntities = <<>>
    /\ projectileEntities = <<>>
    /\ enemiesMade = 0
    /\ projectilesMade = 0
    /\ enemyDeathEvents = [id \in 1..MaxEnemiesMade |-> 0]
    /\ step = 0
    /\ seenProjectiles = {}
    /\ passHits = {}

projectileOthers ==
    <<worldVars, healthVars, combatVars, knockbackVars, velocityVars, moveVars>>

\* MainScene.startWave: createEnemy and enemies.push, between ticks
CreateEnemy(place, health) ==
    /\ step = 0
    /\ enemiesMade < MaxEnemiesMade
    /\ enemiesMade' = enemiesMade + 1
    /\ enemyEntities' =
           Append(enemyEntities, NewEnemy(enemiesMade + 1, place, health))
    /\ UNCHANGED <<projectileEntities, projectilesMade, enemyDeathEvents, step,
                   seenProjectiles, passHits>>
    /\ UNCHANGED projectileOthers

\* MainScene.handlePlayerSkill: createProjectile, from the input handler
\* between ticks
CreateProjectile(place) ==
    /\ step = 0
    /\ projectilesMade < MaxProjectilesMade
    /\ projectilesMade' = projectilesMade + 1
    /\ projectileEntities' =
           Append(projectileEntities, NewProjectile(projectilesMade + 1, place))
    /\ UNCHANGED <<enemyEntities, enemiesMade, enemyDeathEvents, step,
                   seenProjectiles, passHits>>
    /\ UNCHANGED projectileOthers

\* MainScene.handlePlayerAttack, from the input handler between ticks: the
\* melee scan, then handleEnemyDeath for every hit enemy that is dead
PlayerAttack(attack) ==
    /\ step = 0
    /\ LET st == checkAttackCollisions(
                     [es |-> enemyEntities, events |-> enemyDeathEvents,
                      hitEnemies |-> {}],
                     attack, AttackRange, AttackDamage, 1)
       IN  /\ enemyEntities' =
                  [j \in DOMAIN st.es |->
                      IF j \in st.hitEnemies /\ ~isAlive(st.es[j].hc)
                      THEN handleEnemyDeath(st.es, j)[j]
                      ELSE st.es[j]]
           /\ enemyDeathEvents' = st.events
    /\ UNCHANGED <<projectileEntities, enemiesMade, projectilesMade, step,
                   seenProjectiles, passHits>>
    /\ UNCHANGED projectileOthers

\* MainScene.update -> World.update: the flush before the systems run
TickFlush ==
    /\ step = 0
    /\ ~isGameOver
    /\ enemyEntities' = FlushList(enemyEntities)
    /\ projectileEntities' = FlushList(projectileEntities)
    /\ step' = 1
    /\ seenProjectiles' = {}
    /\ passHits' = {}
    /\ UNCHANGED <<enemiesMade, projectilesMade, enemyDeathEvents>>
    /\ UNCHANGED projectileOthers

\* ComponentUpdateSystem.update: health.update(deltaTime) of every enemy
EnemyComponentUpdate(deltaTime) ==
    /\ step = 1
    /\ enemyEntities' =
           [j \in DOMAIN enemyEntities |->
               [enemyEntities[j] EXCEPT !.hc = healthUpdate(@, deltaTime)]]
    /\ step' = 2
    /\ UNCHANGED <<projectileEntities, enemiesMade, projectilesMade,
                   enemyDeathEvents, seenProjectiles, passHits>>
    /\ UNCHANGED projectileOthers

\* MovementSystem.update writes every transform; any place can result
MoveEntities ==
    /\ step = 2
    /\ \E f \in [DOMAIN enemyEntities -> EnemyPlaces] :
          enemyEntities' =
              [j \in DOMAIN enemyEntities |->
                  [enemyEntities[j] EXCEPT !.place = f[j]]]
    /\ \E g \in [DOMAIN projectileEntities -> ProjectilePlaces] :
          projectileEntities' =
              [i \in DOMAIN projectileEntities |->
                  [projectileEntities[i] EXCEPT !.place = g[i]]]
    /\ step' = 3
    /\ UNCHANGED <<enemiesMade, projectilesMade, enemyDeathEvents,
                   seenProjectiles, passHits>>
    /\ UNCHANGED projectileOthers

\* CollisionSystem.update, the projectiles against the enemies
ProjectileCollisionStep ==
    /\ step = 3
    /\ LET r == checkProjectileEnemyCollisions(
                    enemyEntities, projectileEntities, enemyDeathEvents)
       IN  /\ enemyEntities' = r.es
           /\ projectileEntities' = r.ps
           /\ enemyDeathEvents' = r.events
           /\ passHits' = r.hits
    /\ step' = 4
    /\ UNCHANGED <<enemiesMade, projectilesMade, seenProjectiles>>
    /\ UNCHANGED projectileOthers

\* ProjectileSystem.update: the query, then removeEntity for the projectiles
\* that are expired or out of bounds (any of them may be)
ProjectileSystemStep ==
    /\ step = 4
    /\ LET seen == {i \in DOMAIN projectileEntities : projectileEntities[i].live}
       IN  /\ seenProjectiles' = {projectileEntities[i].id : i \in seen}
           /\ \E gone \in SUBSET seen :
                 projectileEntities' =
                     [i \in DOMAIN projectileEntities |->
                         IF i \in gone
                         THEN [projectileEntities[i] EXCEPT !.staged = TRUE]
                         ELSE projectileEntities[i]]
    /\ step' = 0
    /\ UNCHANGED <<enemyEntities, enemiesMade, projectilesMade,
                   enemyDeathEvents, passHits>>
    /\ UNCHANGED projectileOthers

(***************************************************************************)
(* Knockback of an enemy: the flag, the velocity and the delayed callbacks *)
(* of CollisionSystem.applyEnemyKnockback, and EnemyAISystem.  The scene   *)
(* clock runs at time scale 1.                                             *)
(***************************************************************************)
\* delayed callbacks pending at once (a bound of the model)
MaxKnockTimers == 2

\* constant of the program
KnockbackMs == 500

\* what the scene clock advances by in one frame
ClockDeltas == {20, 50, 100}

knockbackOthers ==
    <<worldVars, healthVars, combatVars, projectileVars, velocityVars, moveVars>>

InitKnockback ==
    /\ isKnockbackActive = FALSE
    /\ enemyVelocity = "pursuit"
    /\ knockTimers = <<>>
    /\ enemyWasHit = FALSE
    /\ sinceEnemyHit = 0

\* CollisionSystem.applyEnemyKnockback, called for every projectile or melee
\* hit: the knockback velocity, the flag, and a callback 500 ms later
ApplyEnemyKnockback ==
    /\ Len(knockTimers) < MaxKnockTimers
    /\ enemyVelocity' = "knockback"
    /\ isKnockbackActive' = TRUE
    /\ knockTimers' = Append(knockTimers, KnockbackMs)
    /\ enemyWasHit' = TRUE
    /\ sinceEnemyHit' = 0
    /\ UNCHANGED knockbackOthers

\* the scene clock advances: every pending callback whose delay has elapsed
\* runs, setKnockback(false) and setVelocity(vx * 0.3, vy * 0.3)
ClockAdvance(delta) ==
    /\ knockTimers # <<>>
    /\ LET left == [k \in DOMAIN knockTimers |-> knockTimers[k] - delta]
           fired == \E k \in DOMAIN left : left[k] <= 0
       IN  /\ knockTimers' = SelectSeq(left, LAMBDA t : t > 0)
           /\ isKnockbackActive' = IF fired THEN FALSE ELSE isKnockbackActive
           /\ enemyVelocity' = IF fired THEN "decayed" ELSE enemyVelocity
    /\ sinceEnemyHit' = Min(KnockbackMs, sinceEnemyHit + delta)
    /\ UNCHANGED enemyWasHit
    /\ UNCHANGED knockbackOthers

\* EnemyAISystem.update: an enemy under knockback is skipped, any other gets
\* the pursuit velocity
EnemyAIStep ==
    /\ enemyVelocity' = IF isKnockbackActive THEN enemyVelocity ELSE "pursuit"
    /\ UNCHANGED <<isKnockbackActive, knockTimers, enemyWasHit, sinceEnemyHit>>
    /\ UNCHANGED knockbackOthers

(***************************************************************************)
(* One VelocityComponent under arbitrary mutations.                        *)
(***************************************************************************)
\* arguments of the calls made on the component of SpecVelocity
MaxSpeeds == {100}
Frictions == {0, 2}
VelocityArgs == {-300, 0, 200}
\* cos and sin of the knockback and pursuit angles, in thousandths
Directions == {<<1000, 0>>, <<0, -1000>>, <<707, 707>>, <<-600, 800>>,
               <<894, 447>>}
\* enemy pursuit and player knockback, projectile knockback, melee knockback
Forces == {100, 150, 200}
\* the decay factors of the delayed knockback callbacks, in tenths
DecayTenths == {5, 3}

\* what the calls on the component of SpecVelocity leave alone
velocityOthers ==
    <<worldVars, healthVars, combatVars, projectileVars, knockbackVars,
      moveVars, lastPush>>

\* no knockback has written the component of the owner
NoPush(owner) ==
    [owner |-> owner, force |-> 0, source |-> Origin, target |-> Origin]

InitVelocity(maxSpeed, friction) ==
    /\ velocity = NewVelocity(maxSpeed, friction)
    /\ lastPush = NoPush("player")

CallSetVelocity(vx, vy) ==
    /\ velocity' = setVelocity(velocity, vx, vy)
    /\ UNCHANGED velocityOthers

CallAddVelocity(dvx, dvy) ==
    /\ velocity' = addVelocity(velocity, dvx, dvy)
    /\ UNCHANGED velocityOthers

\* MovementSystem.update: velocity.applyFriction(deltaTime)
MovementFriction(deltaTime) ==
    /\ velocity' = applyFriction(velocity, deltaTime)
    /\ UNCHANGED velocityOthers

\* MovementSystem.update at a wall: velocity.vx = 0, velocity.vy = 0 or both
WallStop(stopX, stopY) ==
    /\ stopX \/ stopY
    /\ velocity' = [velocity EXCEPT !.vx = IF stopX THEN 0 ELSE @,
                                    !.vy = IF stopY THEN 0 ELSE @]
    /\ UNCHANGED velocityOthers

\* EnemyAISystem pursuit, applyKnockback and applyEnemyKnockback:
\* setVelocity(Math.cos(angle) * force, Math.sin(angle) * force)
PushTowards(dir, force) ==
    /\ velocity' = setVelocity(velocity, RoundDiv(dir[1] * force, 1000),
                                         RoundDiv(dir[2] * force, 1000))
    /\ UNCHANGED velocityOthers

\* the delayed callbacks of the knockbacks:
\* setVelocity(velocity.vx * 0.5, velocity.vy * 0.5), or * 0.3
KnockbackDecay(tenths) ==
    /\ velocity' = decayVelocity(velocity, tenths)
    /\ UNCHANGED velocityOthers

(***************************************************************************)
(* The velocity of one entity built by EntityFactory under the knockbacks  *)
(* of CollisionSystem.                                                     *)
(***************************************************************************)
Owners == {"player", "enemy"}

\* EntityFactory.createPlayer and createEnemy: new VelocityComponent(0, 0, m)
MaxSpeedOf(owner) == IF owner = "player" THEN PlayerMaxSpeed ELSE EnemyMaxSpeed

pushOthers ==
    <<worldVars, healthVars, combatVars, projectileVars, knockbackVars,
      moveVars>>

\* pass B: applyEnemyKnockback(enemy, projectile.x, projectile.y, 150) for a
\* projectile within 20 units of the enemy
ProjectileKnockback(source, target) ==
    /\ lastPush.owner = "enemy"
    /\ Dist2(source, target) < ProjectileDistance * ProjectileDistance
    /\ velocity' = applyKnockback(velocity, source, target,
                                  ProjectileKnockbackForce)
    /\ lastPush' = [owner |-> "enemy", force |-> ProjectileKnockbackForce,
                    source |-> source, target |-> target]
    /\ UNCHANGED pushOthers

\* checkAttackCollisions: applyEnemyKnockback(enemy, attackX, attackY, 200)
\* for an enemy within the range of the attack point
MeleeKnockback(source, target) ==
    /\ lastPush.owner = "enemy"
    /\ Dist2(source, target) <= AttackRange * AttackRange
    /\ velocity' = applyKnockback(velocity, source, target, MeleeKnockbackForce)
    /\ lastPush' = [owner |-> "enemy", force |-> MeleeKnockbackForce,
                    source |-> source, target |-> target]
    /\ UNCHANGED pushOthers

\* pass A: applyKnockback(player, enemy.x, enemy.y, 100) for an enemy within
\* 30 units of the player
ContactKnockback(source, target) ==
    /\ lastPush.owner = "player"
    /\ Within(target, source)
    /\ velocity' = applyKnockback(velocity, source, target,
                                  ContactKnockbackForce)
    /\ lastPush' = [owner |-> "player", force |-> ContactKnockbackForce,
                    source |-> source, target |-> target]
    /\ UNCHANGED pushOthers

\* EnemyAISystem.update for an enemy at source and the player at target:
\* setVelocity(Math.cos(angle) * movementSpeed, Math.sin(angle) * movementSpeed),
\* the computation of the knockbacks with the angle towards the player
EnemyPursuit(source, target) ==
    /\ lastPush.owner = "enemy"
    /\ velocity' = applyKnockback(velocity, source, target, EnemyMovementSpeed)
    /\ lastPush' = NoPush("enemy")
    /\ UNCHANGED pushOthers

\* the delayed callback of a knockback: * 0.5 for the player, * 0.3 for an
\* enemy
KnockbackCallback ==
    /\ velocity' = decayVelocity(velocity,
                                 IF lastPush.owner = "player" THEN 5 ELSE 3)
    /\ lastPush' = NoPush(lastPush.owner)
    /\ UNCHANGED pushOthers

(***************************************************************************)
(* One moving entity through the tick: MovementSystem, the systems that    *)
(* steer it, CollisionSystem and ProjectileSystem.                         *)
(***************************************************************************)
\* entities created in one run (a bound of the model)
MaxMoversMade == 2

\* constants of the program
BoundsMinX == 20
BoundsMaxX == 780
BoundsMinY == 20
BoundsMaxY == 580
ProjectileMinX == 0
ProjectileMaxX == 800
ProjectileMinY == 0
ProjectileMaxY == 600
ProjectileMaxSpeed == 400
ProjectileMaxLifetime == 3000

\* the deltaTime values of the ticks
MoveDeltas == {0, 1000, 2000}
\* where createEnemy and createPlayer put a body: the centre of the field and
\* the spawn points of startWave outside it
BodyStarts == {<<400, 300>>, <<-50, 300>>, <<400, -50>>, <<400, 650>>}
\* the velocities PlayerInputSystem and EnemyAISystem give a body
BodyVelocities == {<<0, 0>>, <<-60, 80>>, <<100, 0>>}
\* where createProjectile puts a projectile, and its velocity
ShotStarts == {<<400, 300>>, <<780, 20>>}
ShotVelocities == {<<400, 0>>, <<0, -400>>, <<100, 0>>}

moveOthers ==
    <<worldVars, healthVars, combatVars, projectileVars, knockbackVars,
      velocityVars>>

NoMover ==
    [id |-> 0, kind |-> "none", x |-> 0, y |-> 0,
     velocity |-> NewVelocity(0, 0), lifetime |-> 0, state |-> "none",
     staged |-> FALSE]

\* the entity the queries of the systems return
IsLive(m) == m.state = "live"

\* Math.max(lo, Math.min(hi, a))
Clamp(a, lo, hi) == Max(lo, Min(hi, a))

\* a plausible bug: the position is clamped but the velocity is left alone
moveEntityNoStop(m, deltaTime) ==
    LET v == applyFriction(m.velocity, deltaTime)
        newX == m.x + RoundDiv(v.vx * deltaTime, 1000)
        newY == m.y + RoundDiv(v.vy * deltaTime, 1000)
    IN  IF m.kind = "projectile"
        THEN [m EXCEPT !.velocity = v, !.x = newX, !.y = newY]
        ELSE [m EXCEPT !.velocity = v,
                       !.x = Clamp(newX, BoundsMinX, BoundsMaxX),
                       !.y = Clamp(newY, BoundsMinY, BoundsMaxY)]

\* a plausible bug: a projectile is clamped like every other entity
moveEntityClampAll(m, deltaTime) ==
    LET v == applyFriction(m.velocity, deltaTime)
        newX == m.x + RoundDiv(v.vx * deltaTime, 1000)
        newY == m.y + RoundDiv(v.vy * deltaTime, 1000)
    IN  [m EXCEPT !.x = Clamp(newX, BoundsMinX, BoundsMaxX),
                  !.y = Clamp(newY, BoundsMinY, BoundsMaxY),
                  !.velocity =
                      [v EXCEPT
                          !.vx = IF newX < BoundsMinX \/ newX > BoundsMaxX
                                 THEN 0 ELSE @,
                          !.vy = IF newY < BoundsMinY \/ newY > BoundsMaxY
                                 THEN 0 ELSE @]]

\* the body of the loop of MovementSystem.update for one entity
moveEntity(m, deltaTime) ==
    LET v == applyFriction(m.velocity, deltaTime)
        newX == m.x + RoundDiv(v.vx * deltaTime, 1000)
        newY == m.y + RoundDiv(v.vy * deltaTime, 1000)
    IN  IF m.kind = "projectile"
        THEN [m EXCEPT !.velocity = v, !.x = newX, !.y = newY]
        ELSE [m EXCEPT !.x = Clamp(newX, BoundsMinX, BoundsMaxX),
                       !.y = Clamp(newY, BoundsMinY, BoundsMaxY),
                       !.velocity =
                           [v EXCEPT
                               !.vx = IF newX < BoundsMinX \/ newX > BoundsMaxX
                                      THEN 0 ELSE @,
                               !.vy = IF newY < BoundsMinY \/ newY > BoundsMaxY
                                      THEN 0 ELSE @]]

\* isOutOfBounds of ProjectileSystem.update
isOutOfBounds(m) ==
    \/ m.x < ProjectileMinX
    \/ m.x > ProjectileMaxX
    \/ m.y < ProjectileMinY
    \/ m.y > ProjectileMaxY

\* ProjectileComponent.isExpired
isExpired(m) == m.lifetime >= ProjectileMaxLifetime

\* a plausible bug: only a projectile out of bounds is removed
updateProjectileBoundsOnly(m, deltaTime) ==
    LET aged == [m EXCEPT !.lifetime = @ + deltaTime] IN
    IF isOutOfBounds(aged) THEN [aged EXCEPT !.staged = TRUE] ELSE aged

\* the body of the loop of ProjectileSystem.update for one projectile:
\* projectileComponent.update(deltaTime), then removeEntity when it is
\* expired or out of bounds
updateProjectile(m, deltaTime) ==
    LET aged == [m EXCEPT !.lifetime = @ + deltaTime] IN
    IF isExpired(aged) \/ isOutOfBounds(aged)
    THEN [aged EXCEPT !.staged = TRUE]
    ELSE aged

InitMove ==
    /\ mover = NoMover
    /\ movePhase = 0
    /\ moveDelta = 0
    /\ moversMade = 0
    /\ removedIds = {}

\* EntityFactory.createPlayer / createEnemy: the body is staged for admission
CreateBody(place) ==
    /\ movePhase = 0
    /\ mover.state \in {"none", "removed"}
    /\ moversMade < MaxMoversMade
    /\ mover' = [id |-> moversMade + 1, kind |-> "body",
                 x |-> place[1], y |-> place[2],
                 velocity |-> NewVelocity(EnemyMaxSpeed, 0), lifetime |-> 0,
                 state |-> "pending", staged |-> FALSE]
    /\ moversMade' = moversMade + 1
    /\ UNCHANGED <<movePhase, moveDelta, removedIds>>
    /\ UNCHANGED moveOthers

\* EntityFactory.createProjectile(x, y, vx, vy): the constructor of the
\* VelocityComponent stores vx and vy as they are
CreateShot(place, vel) ==
    /\ movePhase = 0
    /\ mover.state \in {"none", "removed"}
    /\ moversMade < MaxMoversMade
    /\ mover' = [id |-> moversMade + 1, kind |-> "projectile",
                 x |-> place[1], y |-> place[2],
                 velocity |-> [NewVelocity(ProjectileMaxSpeed, 0)
                                  EXCEPT !.vx = vel[1], !.vy = vel[2]],
                 lifetime |-> 0, state |-> "pending", staged |-> FALSE]
    /\ moversMade' = moversMade + 1
    /\ UNCHANGED <<movePhase, moveDelta, removedIds>>
    /\ UNCHANGED moveOthers

\* World.update(deltaTime), the flush: a staged creation is admitted, then a
\* staged removal is deleted
MoveFlush(deltaTime) ==
    /\ movePhase = 0
    /\ mover.state # "none"
    /\ LET admitted == IF mover.state = "pending"
                       THEN [mover EXCEPT !.state = "live"] ELSE mover
       IN  IF admitted.staged
           THEN /\ mover' = [admitted EXCEPT !.state = "removed",
                                             !.staged = FALSE]
                /\ removedIds' = removedIds \cup {mover.id}
           ELSE /\ mover' = admitted
                /\ UNCHANGED removedIds
    /\ movePhase' = 1
    /\ moveDelta' = deltaTime
    /\ UNCHANGED moversMade
    /\ UNCHANGED moveOthers

\* MovementSystem.update
MovementUpdate ==
    /\ movePhase = 1
    /\ mover' = IF IsLive(mover) THEN moveEntity(mover, moveDelta) ELSE mover
    /\ movePhase' = 2
    /\ UNCHANGED <<moveDelta, moversMade, removedIds>>
    /\ UNCHANGED moveOthers

\* PlayerInputSystem.update and EnemyAISystem.update: setVelocity on a body
SteerUpdate(vel) ==
    /\ movePhase = 2
    /\ mover' = IF IsLive(mover) /\ mover.kind = "body"
                THEN [mover EXCEPT
                         !.velocity = setVelocity(@, vel[1], vel[2])]
                ELSE mover
    /\ movePhase' = 3
    /\ UNCHANGED <<moveDelta, moversMade, removedIds>>
    /\ UNCHANGED moveOthers

\* CollisionSystem.update: a projectile that hit, or an enemy that died, is
\* passed to world.removeEntity, or nothing is
CollisionUpdate(hit) ==
    /\ movePhase = 3
    /\ mover' = IF IsLive(mover) /\ hit
                THEN [mover EXCEPT !.staged = TRUE] ELSE mover
    /\ movePhase' = 4
    /\ UNCHANGED <<moveDelta, moversMade, removedIds>>
    /\ UNCHANGED moveOthers

\* ProjectileSystem.update, the last system of the tick
ProjectileUpdate ==
    /\ movePhase = 4
    /\ mover' = IF IsLive(mover) /\ mover.kind = "projectile"
                THEN updateProjectile(mover, moveDelta) ELSE mover
    /\ movePhase' = 0
    /\ UNCHANGED <<moveDelta, moversMade, removedIds>>
    /\ UNCHANGED moveOthers

(***************************************************************************)
(* The enemies of a scene: MovementSystem, EnemyAISystem, EnemyVisualSystem *)
(* in the tick, the melee scan and the knockback callbacks between ticks.  *)
(***************************************************************************)
\* bounds of the model
MaxAiEnemies == 2
MaxAiTicks == 2
MaxAttacks == 3

\* constants of the program
EnemyWaveHealth == 150
MovementThreshold == 5
BounceFrequency == 2

\* places at which an enemy is when the model starts to follow it, frame
\* lengths, and the attack points 20 units below and right of the player
AiStarts == {<<400, 350>>, <<430, 360>>}
AiDeltas == {100, 500}
AiAttackPoints == {<<400, 320>>, <<420, 300>>}

aiOthers ==
    <<worldCore, asked, entityVars, healthVars, combatVars, laterVars,
      sceneVars>>

\* EntityFactory.createEnemy with new EnemyComponent()
NewAiEnemy(id, place) ==
    [id |-> id, kind |-> "body", x |-> place[1], y |-> place[2],
     velocity |-> NewVelocity(EnemyMaxSpeed, 0),
     hc |-> NewHealth(EnemyWaveHealth),
     isKnockbackActive |-> FALSE, isMoving |-> FALSE, bounceTime |-> 0,
     scaleTarget |-> "base", state |-> "pending", staged |-> FALSE]

\* a plausible bug: the knockback flag is not looked at
pursueOrSkipAll(e, player) ==
    [e EXCEPT !.velocity =
        LET d == Direction(<<e.x, e.y>>, <<player.x, player.y>>) IN
        setVelocity(@, RoundDiv(d[1] * EnemyMovementSpeed, 1000),
                       RoundDiv(d[2] * EnemyMovementSpeed, 1000))]

\* EnemyAISystem.update, the loop body for one enemy
pursueOrSkip(e, player) ==
    IF e.isKnockbackActive THEN e
    ELSE [e EXCEPT !.velocity =
             LET d == Direction(<<e.x, e.y>>, <<player.x, player.y>>) IN
             setVelocity(@, RoundDiv(d[1] * EnemyMovementSpeed, 1000),
                            RoundDiv(d[2] * EnemyMovementSpeed, 1000))]

\* EnemyAISystem.update: nothing unless the player query is non-empty
enemyAIUpdate(es, player) ==
    IF player.state # "live" THEN es
    ELSE [i \in DOMAIN es |->
            IF IsLive(es[i]) THEN pursueOrSkip(es[i], player) ELSE es[i]]

\* a plausible bug: the visual system stops an enemy it shows as standing
processEnemyVisualsStop(e, deltaTime) ==
    LET moving == e.velocity.vx * e.velocity.vx + e.velocity.vy * e.velocity.vy
                      > MovementThreshold * MovementThreshold
    IN  [e EXCEPT !.isMoving = moving,
                  !.bounceTime = @ + deltaTime * BounceFrequency,
                  !.scaleTarget = IF moving /\ ~e.isKnockbackActive
                                  THEN "bounce" ELSE "base",
                  !.velocity = IF moving /\ ~e.isKnockbackActive
                               THEN @ ELSE [@ EXCEPT !.vx = 0, !.vy = 0]]

\* EnemyVisualSystem.processEnemyVisuals: setMoving, updateBounceAnimation
\* (bounceTime in thousandths; the scale moves towards the base scale or
\* towards the bounce value), setScale on the sprite
processEnemyVisuals(e, deltaTime) ==
    LET moving == e.velocity.vx * e.velocity.vx + e.velocity.vy * e.velocity.vy
                      > MovementThreshold * MovementThreshold
    IN  [e EXCEPT !.isMoving = moving,
                  !.bounceTime = @ + deltaTime * BounceFrequency,
                  !.scaleTarget = IF moving /\ ~e.isKnockbackActive
                                  THEN "bounce" ELSE "base"]

\* CollisionSystem.applyEnemyKnockback on st = [es, hit, timers]
applyEnemyKnockback(st, j, source, force) ==
    [st EXCEPT !.es[j].velocity =
                   applyKnockback(@, source, <<st.es[j].x, st.es[j].y>>, force),
               !.es[j].isKnockbackActive = TRUE,
               !.timers = Append(@, [id |-> st.es[j].id, left |-> KnockbackMs])]

\* a plausible bug: the scan takes distance < range
RECURSIVE attackScanStrict(_, _, _, _, _)
attackScanStrict(st, attack, range, damage, j) ==
    IF j > Len(st.es) THEN st
    ELSE IF ~IsLive(st.es[j])
            \/ Dist2(attack, <<st.es[j].x, st.es[j].y>>) >= range * range
    THEN attackScanStrict(st, attack, range, damage, j + 1)
    ELSE LET r == takeDamage(st.es[j].hc, damage, TRUE)
             st1 == applyEnemyKnockback([st EXCEPT !.es[j].hc = r.h], j,
                                        attack, MeleeKnockbackForce)
             st2 == [st1 EXCEPT !.hit = Append(@, st.es[j].id)]
             st3 == IF isAlive(r.h) THEN st2
                    ELSE [st2 EXCEPT !.es[j].staged = TRUE]
         IN  attackScanStrict(st3, attack, range, damage, j + 1)

\* CollisionSystem.checkAttackCollisions over the enemy query from j on, with
\* the 'enemy-death' listener of MainScene (handleEnemyDeath: removeEntity)
RECURSIVE attackScan(_, _, _, _, _)
attackScan(st, attack, range, damage, j) ==
    IF j > Len(st.es) THEN st
    ELSE IF ~IsLive(st.es[j])
            \/ Dist2(attack, <<st.es[j].x, st.es[j].y>>) > range * range
    THEN attackScan(st, attack, range, damage, j + 1)
    ELSE LET r == takeDamage(st.es[j].hc, damage, TRUE)
             st1 == applyEnemyKnockback([st EXCEPT !.es[j].hc = r.h], j,
                                        attack, MeleeKnockbackForce)
             st2 == [st1 EXCEPT !.hit = Append(@, st.es[j].id)]
             st3 == IF isAlive(r.h) THEN st2
                    ELSE [st2 EXCEPT !.es[j].staged = TRUE]
         IN  attackScan(st3, attack, range, damage, j + 1)

\* the callbacks of the timers that have run out, in the order they were
\* scheduled: setKnockback(false), setVelocity(vx * 0.3, vy * 0.3)
RECURSIVE fireTimers(_, _)
fireTimers(es, timers) ==
    IF timers = <<>> THEN es
    ELSE LET t == Head(timers)
             es1 == IF t.left > 0 THEN es
                    ELSE [i \in DOMAIN es |->
                            IF es[i].id = t.id
                            THEN [es[i] EXCEPT
                                     !.isKnockbackActive = FALSE,
                                     !.velocity = decayVelocity(@, 3)]
                            ELSE es[i]]
         IN  fireTimers(es1, Tail(timers))

\* the flush of World.update on one entity
flushOne(m) ==
    IF m.state \in {"pending", "live"} /\ m.staged
    THEN [m EXCEPT !.state = "removed", !.staged = FALSE]
    ELSE IF m.state = "pending" THEN [m EXCEPT !.state = "live"] ELSE m

\* MainScene.startWave: createEnemy, between ticks
AiCreateEnemy(place) ==
    /\ aiPhase = 0
    /\ Len(aiEnemies) < MaxAiEnemies
    /\ aiEnemies' = Append(aiEnemies, NewAiEnemy(Len(aiEnemies) + 1, place))
    /\ UNCHANGED <<aiPlayer, aiPhase, aiDelta, aiTicks, aiTimers,
                   visualEnabled, attacks, lastAttack, hitEnemies>>
    /\ UNCHANGED aiOthers

\* world.removeEntity(player), between ticks
AiRemovePlayer ==
    /\ aiPhase = 0
    /\ aiPlayer.state \in {"pending", "live"}
    /\ ~aiPlayer.staged
    /\ aiPlayer' = [aiPlayer EXCEPT !.staged = TRUE]
    /\ UNCHANGED <<aiEnemies, aiPhase, aiDelta, aiTicks, aiTimers,
                   visualEnabled, attacks, lastAttack, hitEnemies>>
    /\ UNCHANGED aiOthers

\* enemyVisualSystem.setEnabled(b), between ticks
AiSetVisualEnabled(b) ==
    /\ aiPhase = 0
    /\ visualEnabled # b
    /\ visualEnabled' = b
    /\ UNCHANGED <<aiEnemies, aiPlayer, aiPhase, aiDelta, aiTicks, aiTimers,
                   attacks, lastAttack, hitEnemies>>
    /\ UNCHANGED aiOthers

\* MainScene.handlePlayerAttack: checkAttackCollisions(attackX, attackY, 50,
\* 50), then handleEnemyDeath for the dead enemies of the returned list
AiAttack(attack) ==
    /\ aiPhase = 0
    /\ attacks < MaxAttacks
    /\ LET st == attackScan([es |-> aiEnemies, hit |-> <<>>,
                             timers |-> aiTimers],
                            attack, AttackRange, AttackDamage, 1)
       IN  /\ aiEnemies' = st.es
           /\ aiTimers' = st.timers
           /\ hitEnemies' = st.hit
    /\ attacks' = attacks + 1
    /\ lastAttack' = [x |-> attack[1], y |-> attack[2],
                      range |-> AttackRange, damage |-> AttackDamage]
    /\ UNCHANGED <<aiPlayer, aiPhase, aiDelta, aiTicks, visualEnabled>>
    /\ UNCHANGED aiOthers

\* a frame: the scene clock runs the callbacks that are due, then
\* World.update starts with its flush
AiTickBegin(deltaTime) ==
    /\ aiPhase = 0
    /\ aiTicks < MaxAiTicks
    /\ LET left == [k \in DOMAIN aiTimers |->
                       [aiTimers[k] EXCEPT !.left = @ - deltaTime]]
           es == fireTimers(aiEnemies, left)
       IN  /\ aiTimers' = SelectSeq(left, LAMBDA t : t.left > 0)
           /\ aiEnemies' = [i \in DOMAIN es |-> flushOne(es[i])]
    /\ aiPlayer' = flushOne(aiPlayer)
    /\ aiPhase' = 1
    /\ aiDelta' = deltaTime
    /\ aiTicks' = aiTicks + 1
    /\ UNCHANGED <<visualEnabled, attacks, lastAttack, hitEnemies>>
    /\ UNCHANGED aiOthers

\* MovementSystem.update on the enemies (the player stands)
AiMovement ==
    /\ aiPhase = 1
    /\ aiEnemies' = [i \in DOMAIN aiEnemies |->
                        IF IsLive(aiEnemies[i])
                        THEN moveEntity(aiEnemies[i], aiDelta)
                        ELSE aiEnemies[i]]
    /\ aiPhase' = 2
    /\ UNCHANGED <<aiPlayer, aiDelta, aiTicks, aiTimers, visualEnabled,
                   attacks, lastAttack, hitEnemies>>
    /\ UNCHANGED aiOthers

\* EnemyAISystem.update
AiEnemyAI ==
    /\ aiPhase = 2
    /\ aiEnemies' = enemyAIUpdate(aiEnemies, aiPlayer)
    /\ aiPhase' = 3
    /\ UNCHANGED <<aiPlayer, aiDelta, aiTicks, aiTimers, visualEnabled,
                   attacks, lastAttack, hitEnemies>>
    /\ UNCHANGED aiOthers

\* EnemyVisualSystem.update, if the system is enabled; the tick ends
AiEnemyVisual ==
    /\ aiPhase = 3
    /\ aiEnemies' = [i \in DOMAIN aiEnemies |->
                        IF visualEnabled /\ IsLive(aiEnemies[i])
                        THEN processEnemyVisuals(aiEnemies[i], aiDelta)
                        ELSE aiEnemies[i]]
    /\ aiPhase' = 0
    /\ UNCHANGED <<aiPlayer, aiDelta, aiTicks, aiTimers, visualEnabled,
                   attacks, lastAttack, hitEnemies>>
    /\ UNCHANGED aiOthers

(***************************************************************************)
(* The skill cooldown of the player                                        *)
(***************************************************************************)
\* successful uses the model tells apart (a bound of the model)
MaxSkillUses == 2

\* PlayerComponent.skillCooldownTime as EntityFactory.createPlayer builds it
SkillCooldownTime == 5000

\* frame lengths: a frame of no length, a frame at 60 Hz, a slow frame and a
\* frame longer than the whole cooldown
SkillDeltas == {0, 16, 700, 6000}

skillOthers ==
    <<worldCore, asked, entityVars, aiVars, healthVars, combatVars, laterVars,
      thresholdVars>>

\* a plausible bug: the guard on the running cooldown is missing
useSkillAlways(cooldown) ==
    [cooldown |-> SkillCooldownTime, ret |-> "true"]

\* PlayerComponent.useSkill: the cooldown after the call and the value
\* returned
useSkill(cooldown) ==
    IF cooldown > 0 THEN [cooldown |-> cooldown, ret |-> "false"]
    ELSE [cooldown |-> SkillCooldownTime, ret |-> "true"]

\* PlayerComponent.update
playerUpdate(cooldown, deltaTime) ==
    IF cooldown > 0 THEN Max(0, cooldown - deltaTime) ELSE cooldown

\* PlayerInputSystem.handleSkill, from the SHIFT key or the skill button
HandleSkill ==
    /\ LET r == useSkill(skillCooldown)
       IN  /\ skillCooldown' = r.cooldown
           /\ skillReturn' = r.ret
           /\ skillSince' = IF r.ret = "true" THEN 0 ELSE skillSince
           /\ skillUses' = IF r.ret = "true"
                           THEN Min(MaxSkillUses, skillUses + 1)
                           ELSE skillUses
    /\ UNCHANGED skillDelta
    /\ UNCHANGED skillOthers

\* ComponentUpdateSystem.update on the player, once per World.update
SkillTick(deltaTime) ==
    /\ skillCooldown' = playerUpdate(skillCooldown, deltaTime)
    /\ skillReturn' = "none"
    /\ skillDelta' = deltaTime
    /\ skillSince' = Min(SkillCooldownTime, skillSince + deltaTime)
    /\ UNCHANGED skillUses
    /\ UNCHANGED skillOthers

(***************************************************************************)
(* The distance tests of CollisionSystem, each on one enemy                *)
(***************************************************************************)
\* radii passed to checkAttackCollisions: a small one and the one of
\* MainScene.handlePlayerAttack
MeleeRanges == {30, AttackRange}

thresholdOthers ==
    <<worldCore, asked, entityVars, aiVars, healthVars, combatVars, laterVars,
      skillVars>>

\* a live enemy of the first wave
LiveEnemyAt(place) == [NewEnemy(1, place, 150) EXCEPT !.live = TRUE]

\* CollisionSystem.checkPlayerEnemyCollisions with a player at full health
\* and one enemy
ContactTest(place, enemyPlace) ==
    /\ LET st == checkPlayerEnemyCollisions(
                     [h |-> NewHealth(PlayerMaxHealth), events |-> 0,
                      hitters |-> {}, velocity |-> NewVelocity(PlayerMaxSpeed, 0),
                      pushes |-> 0],
                     place, <<[place |-> enemyPlace, damage |-> EnemyDamage]>>, 1)
       IN  contactCase' = [a |-> place, b |-> enemyPlace,
                           range |-> CollisionDistance,
                           hit |-> st.h.currentHealth < PlayerMaxHealth,
                           done |-> TRUE]
    /\ UNCHANGED <<shotCase, meleeCase>>
    /\ UNCHANGED thresholdOthers

\* CollisionSystem.checkProjectileEnemyCollisions with one projectile and one
\* enemy
ShotTest(place, enemyPlace) ==
    /\ LET r == checkProjectileEnemyCollisions(
                    <<LiveEnemyAt(enemyPlace)>>,
                    <<[NewProjectile(1, place) EXCEPT !.live = TRUE]>>,
                    [id \in 1..MaxEnemiesMade |-> 0])
       IN  shotCase' = [a |-> place, b |-> enemyPlace,
                        range |-> ProjectileDistance,
                        hit |-> r.es[1].hc.currentHealth < 150,
                        done |-> TRUE]
    /\ UNCHANGED <<contactCase, meleeCase>>
    /\ UNCHANGED thresholdOthers

\* CollisionSystem.checkAttackCollisions(x, y, range, 50) with one enemy
MeleeTest(attack, range, enemyPlace) ==
    /\ LET st == checkAttackCollisions(
                     [es |-> <<LiveEnemyAt(enemyPlace)>>,
                      events |-> [id \in 1..MaxEnemiesMade |-> 0],
                      hitEnemies |-> {}],
                     attack, range, AttackDamage, 1)
       IN  meleeCase' = [a |-> attack, b |-> enemyPlace, range |-> range,
                         hit |-> st.hitEnemies # {},
                         done |-> TRUE]
    /\ UNCHANGED <<contactCase, shotCase>>
    /\ UNCHANGED thresholdOthers

(***************************************************************************)
(* Spec: the entity registry.  A scene registers one system and then       *)
(* creates, equips, queries and removes entities between ticks and from    *)
(* inside the system's update.                                             *)
(***************************************************************************)
InitLater == InitProjectiles /\ InitKnockback /\ InitMove

InitRest == InitLater /\ InitVelocity(PlayerMaxSpeed, 0)

Init == InitWorld /\ InitHealth(PlayerMaxHealth) /\ InitScene /\ InitRest

Next ==
    \/ CreateEntity
    \/ \E e \in EntityIds : RemoveEntity(e)
    \/ \E e \in EntityIds, k \in Kinds : AddComponent(e, k)
    \/ \E kinds \in SUBSET QueryKinds : Query(kinds)
    \/ AddSystem(1)
    \/ UpdateBegin
    \/ SystemEnter
    \/ SystemReturn
    \/ SystemThrow
    \/ UpdateEnd

Spec == Init /\ [][Next]_vars

(***************************************************************************)
(* SpecDispatch: the system list and the dispatch loop of World.update.    *)
(* No entity is created; the flush of every tick runs on empty queues.     *)
(***************************************************************************)
NextDispatch ==
    \/ \E s \in SysIds : AddSystem(s)
    \/ \E s \in SysIds, b \in BOOLEAN : SetEnabled(s, b)
    \/ UpdateBegin
    \/ SystemSkip
    \/ SystemEnter
    \/ SystemReturn
    \/ SystemThrow
    \/ UpdateEnd

SpecDispatch == Init /\ [][NextDispatch]_vars

(***************************************************************************)
(* SpecSystems: the system list under addSystem, removeSystem and          *)
(* setEnabled, and the dispatch loop of World.update.  A system holds the  *)
(* world (System.world) and may call removeSystem and setEnabled from its  *)
(* update.                                                                 *)
(***************************************************************************)
NextSystems ==
    \/ \E s \in SysIds : AddSystem(s)
    \/ \E s \in SysIds : RemoveSystem(s)
    \/ \E s \in SysIds, b \in BOOLEAN : SetEnabled(s, b)
    \/ UpdateBegin
    \/ SystemSkip
    \/ SystemEnter
    \/ SystemReturn
    \/ SystemThrow
    \/ UpdateEnd

SpecSystems == Init /\ [][NextSystems]_vars

(***************************************************************************)
(* SpecSkill: the skill cooldown under useSkill and the ticks.             *)
(* SpecSkillFair: the game loop keeps calling World.update with a          *)
(* deltaTime above 0.                                                      *)
(***************************************************************************)
NextSkill ==
    \/ HandleSkill
    \/ \E deltaTime \in SkillDeltas : SkillTick(deltaTime)

SpecSkill == Init /\ [][NextSkill]_vars

SpecSkillFair ==
    SpecSkill /\ WF_vars(\E deltaTime \in SkillDeltas \ {0} : SkillTick(deltaTime))

(***************************************************************************)
(* SpecThreshold: the three distance tests of CollisionSystem applied to   *)
(* places at, inside and outside their thresholds.                         *)
(***************************************************************************)
NextThreshold ==
    \/ \E enemyPlace \in Places : ContactTest(Origin, enemyPlace)
    \/ \E place \in ProjectilePlaces, enemyPlace \in EnemyPlaces :
          ShotTest(place, enemyPlace)
    \/ \E attack \in AttackPoints, range \in MeleeRanges,
          enemyPlace \in EnemyPlaces :
          MeleeTest(attack, range, enemyPlace)

SpecThreshold == Init /\ [][NextThreshold]_vars

(***************************************************************************)
(* SpecEnemyAI: enemies and the player through the ticks, with melee scans *)
(* and the removal of the player between ticks.                            *)
(***************************************************************************)
NextEnemyAI ==
    \/ \E place \in AiStarts : AiCreateEnemy(place)
    \/ AiRemovePlayer
    \/ \E b \in BOOLEAN : AiSetVisualEnabled(b)
    \/ \E attack \in AiAttackPoints : AiAttack(attack)
    \/ \E deltaTime \in AiDeltas : AiTickBegin(deltaTime)
    \/ AiMovement
    \/ AiEnemyAI
    \/ AiEnemyVisual

SpecEnemyAI == Init /\ [][NextEnemyAI]_vars

(***************************************************************************)
(* SpecEntity: one entity, its component map and the release hooks of its  *)
(* component instances, under addComponent, removeComponent, removeEntity  *)
(* and the flush of World.update.                                          *)
(***************************************************************************)
NextEntity ==
    \/ \E k \in Kinds : EntityAddComponent(k)
    \/ \E k \in Kinds : EntityRemoveComponent(k)
    \/ EntityRemove
    \/ EntityFlush

SpecEntity == Init /\ [][NextEntity]_vars

(***************************************************************************)
(* SpecClear: the entity of SpecEntity in a world that is cleared at some  *)
(* point (MainScene.restartGame).                                          *)
(***************************************************************************)
NextClear ==
    \/ NextEntity
    \/ EntityClear

SpecClear == Init /\ [][NextClear]_vars

(***************************************************************************)
(* SpecOrder: the systems of MainScene through the dispatch loop.          *)
(***************************************************************************)
NextOrder ==
    \/ SceneCreate
    \/ UpdateBegin
    \/ SystemEnter
    \/ SystemReturn
    \/ SystemThrow
    \/ UpdateEnd

SpecOrder == Init /\ [][NextOrder]_vars

(***************************************************************************)
(* SpecHealth: one HealthComponent under every sequence of method calls.   *)
(***************************************************************************)
InitHealthSpec ==
    InitWorld /\ InitScene /\ InitRest /\ \E m \in MaxHealths : InitHealth(m)

NextHealth ==
    \/ \E amount \in Amounts, ignoreInvincible \in BOOLEAN :
          CallTakeDamage(amount, ignoreInvincible)
    \/ \E amount \in Amounts : CallHeal(amount)
    \/ \E duration \in Durations : CallSetInvincible(duration)
    \/ \E deltaTime \in Deltas : CallUpdate(deltaTime)

SpecHealth == InitHealthSpec /\ [][NextHealth]_vars

(***************************************************************************)
(* SpecCombat: the player among enemies, tick after tick.                  *)
(***************************************************************************)
NextCombat ==
    \/ \E delta \in TickDeltas : SceneUpdate(delta)
    \/ ComponentUpdateStep
    \/ MovementStep
    \/ CollisionStep
    \/ PlayerKnockbackDecay
    \/ \E place \in Places : SpawnEnemy(place)
    \/ \E i \in 1..MaxEnemies : EnemyRemoved(i)

SpecCombat == Init /\ [][NextCombat]_vars

(***************************************************************************)
(* SpecProjectile: enemies, projectiles and melee attacks, tick after tick.*)
(***************************************************************************)
NextProjectile ==
    \/ \E place \in EnemyPlaces, health \in EnemyHealths :
          CreateEnemy(place, health)
    \/ \E place \in ProjectilePlaces : CreateProjectile(place)
    \/ \E attack \in AttackPoints : PlayerAttack(attack)
    \/ TickFlush
    \/ \E deltaTime \in TickDeltas : EnemyComponentUpdate(deltaTime)
    \/ MoveEntities
    \/ ProjectileCollisionStep
    \/ ProjectileSystemStep

SpecProjectile == Init /\ [][NextProjectile]_vars

(***************************************************************************)
(* SpecKnockback: one enemy hit again and again while the clock runs.      *)
(***************************************************************************)
NextKnockback ==
    \/ ApplyEnemyKnockback
    \/ \E delta \in ClockDeltas : ClockAdvance(delta)
    \/ EnemyAIStep

SpecKnockback == Init /\ [][NextKnockback]_vars

(***************************************************************************)
(* SpecVelocity: one VelocityComponent under every sequence of mutations.  *)
(***************************************************************************)
InitVelocitySpec ==
    /\ InitWorld /\ InitHealth(PlayerMaxHealth) /\ InitScene /\ InitLater
    /\ \E maxSpeed \in MaxSpeeds, friction \in Frictions :
          InitVelocity(maxSpeed, friction)

NextVelocity ==
    \/ \E vx \in VelocityArgs, vy \in VelocityArgs : CallSetVelocity(vx, vy)
    \/ \E dvx \in VelocityArgs, dvy \in VelocityArgs : CallAddVelocity(dvx, dvy)
    \/ \E deltaTime \in Deltas : MovementFriction(deltaTime)
    \/ \E stopX \in BOOLEAN, stopY \in BOOLEAN : WallStop(stopX, stopY)
    \/ \E dir \in Directions, force \in Forces : PushTowards(dir, force)
    \/ \E tenths \in DecayTenths : KnockbackDecay(tenths)

SpecVelocity == InitVelocitySpec /\ [][NextVelocity]_vars

(***************************************************************************)
(* SpecPush: the VelocityComponent of a player or of an enemy under the    *)
(* knockbacks and their delayed callbacks.                                 *)
(***************************************************************************)
InitPush ==
    /\ InitWorld /\ InitHealth(PlayerMaxHealth) /\ InitScene /\ InitLater
    /\ \E owner \in Owners :
          /\ velocity = NewVelocity(MaxSpeedOf(owner), 0)
          /\ lastPush = NoPush(owner)

NextPush ==
    \/ \E source \in Places, target \in Places :
          ProjectileKnockback(source, target)
    \/ \E source \in Places, target \in Places : MeleeKnockback(source, target)
    \/ \E source \in Places, target \in Places :
          ContactKnockback(source, target)
    \/ \E source \in Places, target \in Places : EnemyPursuit(source, target)
    \/ KnockbackCallback

SpecPush == InitPush /\ [][NextPush]_vars

(***************************************************************************)
(* SpecMove: one body or projectile at a time through the ticks.           *)
(* SpecMoveFair: the game loop keeps delivering frames with deltaTime > 0  *)
(* and every World.update runs to its end.                                 *)
(***************************************************************************)
TickSteps ==
    \/ MovementUpdate
    \/ \E vel \in BodyVelocities : SteerUpdate(vel)
    \/ \E hit \in BOOLEAN : CollisionUpdate(hit)
    \/ ProjectileUpdate

NextMove ==
    \/ \E place \in BodyStarts : CreateBody(place)
    \/ \E place \in ShotStarts, vel \in ShotVelocities : CreateShot(place, vel)
    \/ \E deltaTime \in MoveDeltas : MoveFlush(deltaTime)
    \/ TickSteps

SpecMove == Init /\ [][NextMove]_vars

SpecMoveFair ==
    /\ SpecMove
    /\ SF_vars(\E deltaTime \in MoveDeltas \ {0} : MoveFlush(deltaTime))
    /\ WF_vars(TickSteps)

(***************************************************************************)
(* Claims about the entity registry, checked under Spec.                   *)
(***************************************************************************)
\* the step is the flush at the head of World.update
FlushStep == pc = 0 /\ pc' = 1

\* C1: the live entity set changes only in the flush step of World.update:
\* a removeEntity request, from a running system or between ticks, leaves
\* the entity in the live set and in every getEntitiesWith result it was in,
\* and an array already returned by getEntitiesWith is altered by no step
\* that stages a creation or a removal.
C1_LiveSetChangesOnlyAtFlush ==
    [][ /\ (entities' # entities => FlushStep)
        /\ (~FlushStep =>
              \A e \in Range(entitiesToRemove'), kinds \in SUBSET Kinds :
                  e \in Range(getEntitiesWith(kinds))
                      => e \in Range(getEntitiesWith(kinds)'))
        /\ (entitiesToRemove' # entitiesToRemove
              \/ entitiesToAdd' # entitiesToAdd => held' = held)
      ]_vars

\* a running system holds a query result with an entity it has staged for
\* removal, and the entity is still live
C1_Witness ==
    /\ running
    /\ \E e \in Range(entitiesToRemove) :
          e \in Range(entities) /\ e \in Range(held)

\* C2: an entity returned by createEntity is in no query result before the
\* next World.update; the flush of that update admits it (unless a removal
\* was requested for it) before any system of that tick runs, and it then
\* stays live for all systems of the tick.
C2_CreatedVisibleFromNextFlush ==
    /\ [](\A e \in fresh, kinds \in SUBSET Kinds :
              /\ e \notin Range(entities)
              /\ e \notin Range(held)
              /\ e \notin Range(getEntitiesWith(kinds)))
    /\ [][ /\ (FlushStep =>
                 /\ ~running' /\ tickLog' = <<>>
                 /\ \A e \in fresh \ Range(entitiesToRemove) :
                      /\ e \in Range(entities')
                      /\ \A kinds \in SUBSET components[e] :
                            e \in Range(getEntitiesWith(kinds)'))
           /\ (~FlushStep => \A e \in Range(entities) : e \in Range(entities'))
         ]_vars

\* a system is running and holds a non-empty query result while an entity
\* created in this tick is staged: the result does not contain it
C2_Witness ==
    /\ running
    /\ held # <<>>
    /\ \E e \in fresh : components[e] # {} /\ e \notin Range(held)

\* C3: an entity created and then passed to removeEntity before the next
\* World.update is in no query result, in that tick or in any later one.
C3_CreatedThenRemovedNeverVisible ==
    \A e \in doomed, kinds \in SUBSET Kinds :
        /\ e \notin Range(entities)
        /\ e \notin Range(held)
        /\ e \notin Range(getEntitiesWith(kinds))

\* such an entity has gone through the flush, and a system of a later tick
\* holds a non-empty query result
C3_Witness ==
    /\ running
    /\ held # <<>>
    /\ doomed \cap destroyed # {}

\* what World.update leaves of the registry, from the staging r
C4_AfterUpdate(r) ==
    [entities |-> FlushLive(r.entities, entitiesToAdd, r.entitiesToRemove),
     owned |-> DestroyAll([components |-> components, released |-> released],
                          r.entitiesToRemove)]

\* C4: removeEntity is idempotent: in every state, two calls for the same
\* entity stage what one call stages and the next update leaves the same
\* live set and the same release calls; and the flush of an entity that an
\* earlier tick already destroyed releases nothing and changes no other
\* live entity.
C4_RemoveIdempotent ==
    /\ [](\A e \in created :
             LET once == RemoveStage(entities, entitiesToRemove, e)
                 twice == RemoveStage(once.entities, once.entitiesToRemove, e)
             IN  /\ twice = once
                 /\ C4_AfterUpdate(twice) = C4_AfterUpdate(once))
    /\ [][FlushStep =>
             /\ \A e \in Range(entitiesToRemove) \cap destroyed :
                   released'[e] = released[e]
             /\ \A x \in Range(entities) \ Range(entitiesToRemove) :
                   x \in Range(entities') /\ components'[x] = components[x]
         ]_vars

\* an entity whose components an earlier tick released is staged for removal
\* again
C4_Witness ==
    \E e \in destroyed :
        /\ e \in Range(entitiesToRemove)
        /\ \E k \in Kinds : released[e][k] = 1

(***************************************************************************)
(* Claims about the dispatch loop, checked under SpecDispatch.             *)
(***************************************************************************)
\* C5: when an enabled system's update throws, the exception does not leave
\* World.update, the loop goes on with the next index (so every later
\* enabled system is invoked in the same tick), and the faulting system
\* keeps its enabled flag, so the next tick invokes it again.
C5_FaultDoesNotHaltFrame ==
    [][ /\ (threw' # threw /\ threw' # {} =>
              /\ pc' = pc + 1
              /\ enabled' = enabled)
        /\ (pc \in 1..Len(systems) /\ pc' # pc =>
              /\ pc' = pc + 1
              /\ systems[pc] \in Range(tickLog) \/ ~enabled[systems[pc]])
        /\ (pc # 0 /\ pc' = 0 => pc = Len(systems) + 1)
        /\ (pc \in 1..Len(systems) /\ ~running /\ enabled[systems[pc]]
              /\ pc' = pc => running' /\ systems[pc] \in Range(tickLog'))
        /\ ~propagated'
      ]_vars

\* a system threw and a system after it was invoked in the same tick
C5_Witness ==
    \E i, j \in 1..Len(tickLog) :
        i < j /\ tickLog[i] \in threw /\ enabled[tickLog[i]]

(***************************************************************************)
(* Claims about HealthComponent, checked under SpecHealth.                 *)
(***************************************************************************)
\* C6: for a component built with maxHealth > 0, after every sequence of
\* takeDamage, heal, setInvincible and update calls with amounts >= 0,
\* 0 <= currentHealth <= maxHealth and isDead holds exactly when
\* currentHealth is 0.
C6_HealthInRange ==
    /\ 0 <= h.currentHealth
    /\ h.currentHealth <= h.maxHealth
    /\ h.isDead <=> h.currentHealth = 0

\* a takeDamage larger than the remaining health has killed the component
C6_Witness ==
    /\ h.maxHealth = 100
    /\ h.isDead
    /\ h.currentHealth = 0
    /\ lastCall.op = "takeDamage"
    /\ lastCall.ret

\* C7: isDead is never reset; on a dead component takeDamage returns false
\* whatever ignoreInvincible is, heal does nothing, and both leave
\* currentHealth, isInvincible and invincibleTime as they were.
C7_DeadIsFinal ==
    [][h.isDead =>
          /\ h'.isDead
          /\ (lastCall'.op \in {"takeDamage", "heal"} => h' = h)
          /\ (lastCall'.op = "takeDamage" => ~lastCall'.ret)
      ]_vars

\* takeDamage with ignoreInvincible = true was refused: only a dead
\* component refuses it
C7_Witness ==
    /\ h.isDead
    /\ lastCall.op = "takeDamage"
    /\ lastCall.ignoreInvincible
    /\ ~lastCall.ret

\* C8: after setInvincible(d) with d > 0, a takeDamage with
\* ignoreInvincible = false that is called while the deltas passed to update
\* since then sum to less than d returns false and leaves currentHealth
\* unchanged.
C8_InvincibilityGate ==
    [][lastCall'.op = "takeDamage" /\ ~lastCall'.ignoreInvincible
          /\ invDur > 0 /\ invSince < invDur
          => ~lastCall'.ret /\ h'.currentHealth = h.currentHealth
      ]_vars

\* Health(100): takeDamage(30), setInvincible(1000), and a second
\* takeDamage(30) after some ticks that sum to less than 1000 ms was refused
C8_Witness ==
    /\ h.maxHealth = 100
    /\ h.currentHealth = 70
    /\ invDur = 1000
    /\ invSince > 0
    /\ invSince < 1000
    /\ lastCall = [op |-> "takeDamage", ignoreInvincible |-> FALSE, ret |-> FALSE]

\* C19: for every d >= 0 passed to setInvincible, an update never leaves
\* invincibleTime negative, never increases it, leaves isInvincible false as
\* soon as the countdown is at or below 0, and leaves isInvincible true only
\* with invincibleTime > 0.
C19_InvincibilityWindowEnds ==
    [][lastCall'.op = "update"
          => /\ h'.invincibleTime >= 0
             /\ h'.invincibleTime <= h.invincibleTime
             /\ (h'.invincibleTime <= 0 => ~h'.isInvincible)
             /\ (h'.isInvincible => h'.invincibleTime > 0)
      ]_vars

(***************************************************************************)
(* Claims about contact damage, checked under SpecCombat.                  *)
(***************************************************************************)
InRange == {i \in 1..Len(enemies) : Within(playerPlace, enemies[i].place)}

\* C9: one CollisionSystem update reduces the player's health by at most one
\* enemy, the first in iteration order within 30 units, and between two
\* applied contact damages the ComponentUpdateSystem deltas sum to at least
\* 1000 ms.
C9_OneContactDamagePerWindow ==
    [][phase = 3 =>
          /\ Cardinality(hitters') <= 1
          /\ \A i \in hitters' :
                /\ i \in InRange
                /\ \A j \in InRange : i <= j
                /\ h'.currentHealth = Max(0, h.currentHealth - enemies[i].damage)
                /\ hadHit => sinceHit >= ContactInvincibleMs
          /\ hitters' = {} => h'.currentHealth = h.currentHealth
      ]_vars

\* the second contact damage of a game, applied by the first of two enemies
\* that are both within reach
C9_Witness ==
    /\ phase = 0
    /\ Len(enemies) = 2
    /\ InRange = {1, 2}
    /\ hitters = {1}
    /\ h.currentHealth = PlayerMaxHealth - 2 * EnemyDamage
    /\ sinceHit = 0

\* C10: 'player-death' is emitted exactly once, in the CollisionSystem update
\* in which the player's currentHealth first reaches 0, and never again.
C10_PlayerDeathOnce ==
    /\ [](playerDeathEvents = IF h.currentHealth = 0 THEN 1 ELSE 0)
    /\ [][playerDeathEvents' # playerDeathEvents =>
             phase = 3 /\ h.currentHealth > 0 /\ h'.currentHealth = 0]_vars

\* the player died with a second enemy within reach in the same update
C10_Witness ==
    /\ playerDeathEvents = 1
    /\ isGameOver
    /\ h.isDead
    /\ hitters = {1}
    /\ InRange = {1, 2}

\* the first enemy of the query within 30 units of the player
FirstInRange == CHOOSE i \in InRange : \A j \in InRange : i <= j

\* C22: for a living, non-invincible player and an enemy at distance < 30,
\* one CollisionSystem update takes the enemy's damage (25, floored at 0) off
\* the player's currentHealth, sets isInvincible with invincibleTime = 1000
\* and sets the player's velocity to point away from the enemy's position;
\* with every enemy at distance >= 30 it changes nothing on the player.
C22_ContactDamageScenario ==
    [][phase = 3 =>
          /\ InRange # {} /\ ~h.isDead /\ ~h.isInvincible =>
                LET e == enemies[FirstInRange].place
                    ax == playerPlace[1] - e[1]
                    ay == playerPlace[2] - e[2]
                    dot == velocity'.vx * ax + velocity'.vy * ay
                    cross == velocity'.vx * ay - velocity'.vy * ax
                IN  /\ h'.currentHealth = Max(0, h.currentHealth - EnemyDamage)
                    /\ h'.isInvincible
                    /\ h'.invincibleTime = ContactInvincibleMs
                    /\ <<velocity'.vx, velocity'.vy>> # <<0, 0>>
                    /\ dot >= 0
                    /\ <<ax, ay>> # <<0, 0>> => dot > 0
                    /\ Abs(cross) <= Abs(ax) + Abs(ay)
          /\ InRange = {} => h' = h /\ velocity' = velocity
      ]_vars

\* the player at the spawn point was hit by an enemy 29 units below it and
\* moves straight up
C22_Witness ==
    /\ phase = 0
    /\ playerPlace = Origin
    /\ Len(enemies) = 1
    /\ enemies[1].place = <<400, 329>>
    /\ hitters = {1}
    /\ h.currentHealth = PlayerMaxHealth - EnemyDamage
    /\ h.invincibleTime = ContactInvincibleMs
    /\ velocity.vx = 0
    /\ velocity.vy = -ContactKnockbackForce

(***************************************************************************)
(* Claims about projectiles and enemies, checked under SpecProjectile.     *)
(***************************************************************************)
LiveEnemies == {j \in DOMAIN enemyEntities : enemyEntities[j].live}
LiveProjectiles == {i \in DOMAIN projectileEntities : projectileEntities[i].live}

\* the live enemies within 20 units of projectile i, by index
InReach(i) ==
    {j \in LiveEnemies :
        Dist2(projectileEntities[i].place, enemyEntities[j].place)
            < ProjectileDistance * ProjectileDistance}

\* the first of them in the World's enumeration order
FirstInReach(i) == CHOOSE j \in InReach(i) : \A k \in InReach(i) : j <= k

\* C11: for every enemy 'enemy-death' is emitted exactly once over its life,
\* whatever projectile hits and melee scans reach it after its health became 0
\* and before it leaves the live set.
C11_EnemyDeathOnce ==
    /\ \A id \in DOMAIN enemyDeathEvents : enemyDeathEvents[id] <= 1
    /\ \A j \in DOMAIN enemyEntities :
          enemyDeathEvents[enemyEntities[j].id] =
              IF enemyEntities[j].hc.isDead THEN 1 ELSE 0

\* C12: in one tick a projectile damages at most one enemy, the first live
\* enemy in enumeration order within 20 units; it is staged for removal in
\* that tick and so damages at most one enemy over its whole life.
C12_ProjectileSingleHit ==
    /\ [](\A i \in DOMAIN projectileEntities :
             /\ projectileEntities[i].hits <= 1
             /\ projectileEntities[i].hits = 1 => projectileEntities[i].staged)
    /\ [][step = 3 =>
             \A x \in passHits' :
                \E i \in LiveProjectiles :
                   /\ projectileEntities[i].id = x[1]
                   /\ InReach(i) # {}
                   /\ enemyEntities[FirstInReach(i)].id = x[2]
                   /\ \A y \in passHits' : y[1] = x[1] => y = x
                   /\ projectileEntities'[i].staged
         ]_vars

\* a projectile within 20 units of two live enemies damaged the first only
C12_Witness ==
    /\ step = 4
    /\ \E i \in LiveProjectiles :
          /\ Cardinality(InReach(i)) = 2
          /\ passHits = {<<projectileEntities[i].id,
                           enemyEntities[FirstInReach(i)].id>>}
          /\ projectileEntities[i].hits = 1

\* C13: after a projectile has hit, the scan goes on: in one CollisionSystem
\* update every live projectile within 20 units of some live enemy damages an
\* enemy and is staged for removal in that tick.
C13_ScanContinues ==
    [][step = 3 =>
          \A i \in LiveProjectiles :
             InReach(i) # {} =>
                /\ projectileEntities'[i].staged
                /\ \E x \in passHits' : x[1] = projectileEntities[i].id
      ]_vars

\* C14 as stated: once the CollisionSystem update has passed the projectile
\* that hit to removeEntity, no later query for ProjectileComponent returns it
\* (the query of ProjectileSystem.update comes later in the same tick).
C14_AbsentAfterBatchRemoval ==
    \A i \in DOMAIN projectileEntities :
       projectileEntities[i].hits > 0 =>
          projectileEntities[i].id \notin seenProjectiles

\* C14 as amended: a projectile that hit is staged for removal by that
\* CollisionSystem update and is gone from the flush of the next World.update
\* on; until then, in the rest of its tick, queries still return it.
C14_AbsentFromNextFlush ==
    \A i \in DOMAIN projectileEntities :
       projectileEntities[i].hits > 0 =>
          /\ projectileEntities[i].staged
          /\ step \in {4, 0}

\* a projectile that hit was returned by the query of ProjectileSystem.update
\* of the same tick and waits for the next flush
C14_Witness ==
    /\ step = 0
    /\ \E i \in LiveProjectiles :
          /\ projectileEntities[i].hits = 1
          /\ projectileEntities[i].staged
          /\ projectileEntities[i].id \in seenProjectiles

\* C15: in one CollisionSystem update a projectile within 20 units of a living
\* enemy takes its damage, 30 floored at 0, off that enemy's currentHealth,
\* whatever the enemy's isInvincible flag is.
C15_ProjectileDamageApplied ==
    [][step = 3 =>
          \A i \in LiveProjectiles :
             InReach(i) # {} /\ isAlive(enemyEntities[FirstInReach(i)].hc) =>
                enemyEntities'[FirstInReach(i)].hc.currentHealth <=
                    Max(0, enemyEntities[FirstInReach(i)].hc.currentHealth
                               - ProjectileDamage)
      ]_vars

\* C16: the HealthComponent of every enemy has isInvincible = false and
\* invincibleTime = 0 in every reachable state.
C16_EnemyNeverInvincible ==
    \A j \in DOMAIN enemyEntities :
       /\ ~enemyEntities[j].hc.isInvincible
       /\ enemyEntities[j].hc.invincibleTime = 0

\* an enemy that a projectile has just hit, after an earlier melee hit
C16_Witness ==
    /\ step = 4
    /\ \E j \in LiveEnemies :
          /\ \E x \in passHits : x[2] = enemyEntities[j].id
          /\ enemyEntities[j].hc.currentHealth =
                 enemyEntities[j].hc.maxHealth - AttackDamage - ProjectileDamage

(***************************************************************************)
(* Claims about knockback, checked under SpecKnockback.                    *)
(***************************************************************************)
\* C17: after every hit on an enemy the knockback flag stays set, so that
\* EnemyAISystem leaves the velocity alone, for 500 ms counted from that hit,
\* also when the enemy is hit again while an earlier knockback is pending.
C17_KnockbackLasts ==
    enemyWasHit /\ sinceEnemyHit < KnockbackMs => isKnockbackActive

C21_KnockbackMagnitudes ==
    lastPush.force # 0 =>
        LET ax == lastPush.target[1] - lastPush.source[1]
            ay == lastPush.target[2] - lastPush.source[2]
            norm2 == velocity.vx * velocity.vx + velocity.vy * velocity.vy
            dot == velocity.vx * ax + velocity.vy * ay
            cross == velocity.vx * ay - velocity.vy * ax
        IN  /\ (lastPush.force - 1) * (lastPush.force - 1) <= norm2
            /\ norm2 <= (lastPush.force + 1) * (lastPush.force + 1)
            /\ dot >= 0
            /\ <<ax, ay>> # <<0, 0>> => dot > 0
            /\ Abs(cross) <= Abs(ax) + Abs(ay)

(***************************************************************************)
(* Claims about movement and projectile disposal, checked under SpecMove   *)
(* and SpecMoveFair.                                                       *)
(***************************************************************************)
InField(m) ==
    /\ m.x >= BoundsMinX
    /\ m.x <= BoundsMaxX
    /\ m.y >= BoundsMinY
    /\ m.y <= BoundsMaxY

\* C23: after every MovementSystem update every live non-projectile entity
\* has x in [20, 780] and y in [20, 580], wherever it was before, and on each
\* axis where the unclamped new position fell outside the range the velocity
\* of that axis is 0, while the velocity of the other axis is as it was.
C23_BodyClampedToField ==
    /\ [](IsLive(mover) /\ mover.kind = "body" /\ movePhase # 1
             => InField(mover))
    /\ [][movePhase = 1 /\ IsLive(mover) /\ mover.kind = "body" =>
             LET newX == mover.x + RoundDiv(mover.velocity.vx * moveDelta, 1000)
                 newY == mover.y + RoundDiv(mover.velocity.vy * moveDelta, 1000)
                 outX == newX < BoundsMinX \/ newX > BoundsMaxX
                 outY == newY < BoundsMinY \/ newY > BoundsMaxY
             IN  /\ InField(mover')
                 /\ mover'.velocity.vx = IF outX THEN 0 ELSE mover.velocity.vx
                 /\ mover'.velocity.vy = IF outY THEN 0 ELSE mover.velocity.vy
       ]_vars

\* a body that ran into the left wall while moving down and left: it is at
\* x = 20 with vx = 0, and vy is still 80
C23_Witness ==
    /\ movePhase = 2
    /\ IsLive(mover)
    /\ mover.kind = "body"
    /\ mover.x = BoundsMinX
    /\ mover.y < BoundsMaxY
    /\ mover.velocity.vx = 0
    /\ mover.velocity.vy = 80

\* C24: MovementSystem never clamps a projectile, its new position is
\* position + velocity * dt, and every live projectile outside
\* [0, 800] x [0, 600] when ProjectileSystem runs is staged for removal in
\* that tick, so that no projectile outside the field is in the live set
\* after the next flush.
C24_ProjectileLeavesTheField ==
    /\ [][movePhase = 1 /\ IsLive(mover) /\ mover.kind = "projectile" =>
             /\ mover'.x = mover.x + RoundDiv(mover.velocity.vx * moveDelta, 1000)
             /\ mover'.y = mover.y + RoundDiv(mover.velocity.vy * moveDelta, 1000)
       ]_vars
    /\ [][movePhase = 4 /\ IsLive(mover) /\ mover.kind = "projectile"
             /\ isOutOfBounds(mover) => mover'.staged
       ]_vars
    /\ [](IsLive(mover) /\ mover.kind = "projectile" /\ isOutOfBounds(mover)
             => mover.staged \/ movePhase \in {2, 3, 4})

\* a projectile flew out over the right edge and ProjectileSystem staged it
C24_Witness ==
    /\ movePhase = 0
    /\ IsLive(mover)
    /\ mover.kind = "projectile"
    /\ mover.x > ProjectileMaxX
    /\ mover.lifetime < ProjectileMaxLifetime
    /\ mover.staged

PlaceOf(e) == CHOOSE i \in 1..Len(entities) : entities[i] = e

\* C28: getEntitiesWith(kinds) returns exactly the live entities that hold
\* every requested kind, each once, in the insertion order of the live set;
\* a kind no entity holds gives the empty list, and the empty kind list
\* gives all live entities.  Stated of every step in which the running
\* system receives a query result.
C28_QueryReturnsHolders ==
    [][ running /\ running' /\ (held' # held \/ asked' # asked) =>
          /\ \A e \in EntityIds :
                e \in Range(held') <=>
                    e \in Range(entities) /\ asked' \subseteq components[e]
          /\ \A i, j \in 1..Len(held') :
                i < j => /\ held'[i] # held'[j]
                         /\ PlaceOf(held'[i]) < PlaceOf(held'[j])
          /\ (Unregistered \in asked' => held' = <<>>)
          /\ (asked' = {} => held' = entities)
      ]_vars

\* a query for one kind returned the one of two live entities that holds
\* it, and the other holds another kind
C28_Witness ==
    /\ running
    /\ Len(entities) = 2
    /\ Len(held) = 1
    /\ Cardinality(asked) = 1
    /\ \A k \in asked : k \in components[held[1]]
    /\ \E e \in Range(entities) : components[e] # {} /\ ~(asked \subseteq components[e])

(***************************************************************************)
(* Claims about the components of an entity, checked under SpecEntity.     *)
(***************************************************************************)
\* C29: an entity holds at most one component per kind, and addComponent
\* of a kind the entity already holds replaces the prior instance and
\* releases it first: in the step that stores a new instance over a prior
\* one the prior instance's release hook is called.
C29_ReplaceReleasesPrior ==
    /\ [](\A k \in Kinds : slots[k] \in 0..MaxInstances)
    /\ [][\A k \in Kinds :
            slots[k] # 0 /\ slots'[k] # 0 /\ slots'[k] # slots[k] =>
                hookCalls'[slots[k]] = hookCalls[slots[k]] + 1
        ]_vars

\* the instances the entity holds
Attached == {slots[k] : k \in Kinds} \ {0}

\* C30: when a staged removal is applied at the flush, the release hook of
\* every attached component instance is called and the component set
\* becomes empty; whatever removeComponent, removeEntity and World.update
\* calls are made, also on an entity removed before, no instance has its
\* release hook called more than once.
C30_ReleasedOnceAtRemoval ==
    /\ [](\A i \in InstanceIds : hookCalls[i] <= 1)
    /\ [][removalStaged /\ ~removalStaged' =>
            /\ \A i \in Attached : hookCalls'[i] = hookCalls[i] + 1
            /\ \A i \in InstanceIds \ Attached : hookCalls'[i] = hookCalls[i]
            /\ Attached' = {}
            /\ membership' = "removed"
        ]_vars

\* the entity was removed by a flush while holding two components, one of
\* its components had been removed with removeComponent before, and the
\* entity was staged for removal again
C30_Witness ==
    /\ membership = "removed"
    /\ removalStaged
    /\ Attached = {}
    /\ \A i \in InstanceIds : hookCalls[i] = 1

(***************************************************************************)
(* Claims about the order of the systems, checked under SpecOrder and      *)
(* SpecDispatch.                                                           *)
(***************************************************************************)
\* the order the claim gives
ClaimedOrder ==
    <<ComponentUpdateSystem, PlayerInputSystem, MovementSystem, EnemyAISystem,
      EnemyVisualSystem, CollisionSystem, ProjectileSystem>>

\* C26: in every tick the systems run in the order ComponentUpdateSystem,
\* PlayerInputSystem, MovementSystem, EnemyAISystem, EnemyVisualSystem,
\* CollisionSystem, ProjectileSystem: what the tick has invoked so far of
\* these seven is an initial part of that list.
C26_FixedSystemOrder ==
    LET log == SelectSeq(tickLog, LAMBDA s : s \in Range(ClaimedOrder)) IN
    /\ Len(log) <= Len(ClaimedOrder)
    /\ log = SubSeq(ClaimedOrder, 1, Len(log))

\* the list without the system s
Without(arr, s) == SelectSeq(arr, LAMBDA x : x # s)

\* C27: World.update invokes exactly the enabled systems, in ascending
\* getPriority order and, among equal priorities, in the order of the
\* addSystem calls, whatever addSystem, removeSystem and setEnabled calls
\* were made; a disabled system is never invoked.  The list is ascending in
\* priority; addSystem puts the new system behind every system of the same
\* or a lower priority and before every system of a higher one, and leaves
\* the others in their order, as removeSystem does; the loop invokes a
\* system only if it is enabled, at most once in a tick and after every
\* registered system the tick invoked already; it moves past a system only
\* if that system was invoked in this tick or is disabled, one system at a
\* time, and ends behind the last one.
C27_EnabledSystemsInPriorityOrder ==
    /\ [](\A i, j \in 1..Len(systems) :
            i < j => getPriority(systems[i]) <= getPriority(systems[j]))
    /\ [][ /\ \A s \in Range(systems') \ Range(systems) :
                /\ Without(systems', s) = systems
                /\ \A i, j \in 1..Len(systems') :
                      systems'[i] = s /\ i < j
                          => getPriority(s) < getPriority(systems'[j])
           /\ \A s \in Range(systems) \ Range(systems') :
                systems' = Without(systems, s)
           /\ (tickLog' # tickLog /\ tickLog' # <<>> =>
                 /\ pc \in 1..Len(systems)
                 /\ tickLog' = Append(tickLog, systems[pc])
                 /\ enabled[systems[pc]]
                 /\ systems[pc] \notin Range(tickLog)
                 /\ \A i \in 1..Len(systems) :
                       systems[i] \in Range(tickLog) => i < pc)
           /\ (pc >= 1 /\ pc' # pc /\ pc' # 0 =>
                 /\ pc' = pc + 1
                 /\ pc <= Len(systems) =>
                       systems[pc] \in Range(tickLog) \/ ~enabled[systems[pc]])
           /\ (pc # 0 /\ pc' = 0 => pc > Len(systems))
         ]_vars

(***************************************************************************)
(* Claims about the enemies, checked under SpecEnemyAI.                    *)
(***************************************************************************)
\* the positions of the enemies
EnemyPositions(es) == [i \in DOMAIN es |-> <<es[i].x, es[i].y>>]

\* C31: when no player entity is live, EnemyAISystem does nothing and the
\* enemies freeze: in a tick that runs without a live player no enemy's
\* position changes.
C31_EnemiesFreezeWithoutPlayer ==
    [][ aiPhase # 0 /\ aiPlayer.state # "live" =>
          EnemyPositions(aiEnemies') = EnemyPositions(aiEnemies)
      ]_vars

\* v is movementSpeed long, within the rounding, and points from the place
\* from to the place to; from a place to itself the angle is 0
PointsAt(v, from, to) ==
    LET ax == to[1] - from[1]
        ay == to[2] - from[2]
        norm2 == v.vx * v.vx + v.vy * v.vy
        dot == v.vx * ax + v.vy * ay
        cross == v.vx * ay - v.vy * ax
        speed == Min(EnemyMovementSpeed, v.maxSpeed)
    IN  /\ (speed - 1) * (speed - 1) <= norm2
        /\ norm2 <= (speed + 1) * (speed + 1)
        /\ IF <<ax, ay>> = <<0, 0>> THEN v.vx > 0 /\ v.vy = 0
           ELSE dot > 0 /\ Abs(cross) <= Abs(ax) + Abs(ay)

\* C32: EnemyAISystem.update leaves the velocity of every enemy whose
\* knockback flag is set as it is, and gives every other live enemy the
\* velocity that points from the enemy to the live player and is
\* movementSpeed long (at most maxSpeed); it changes no position and no
\* HealthComponent.
C32_PursuitSkipsKnockback ==
    [][ aiPhase = 2 =>
          \A i \in DOMAIN aiEnemies :
              LET e == aiEnemies[i]
                  f == aiEnemies'[i]
              IN  /\ f.x = e.x /\ f.y = e.y
                  /\ f.hc = e.hc
                  /\ f.isKnockbackActive = e.isKnockbackActive
                  /\ e.isKnockbackActive => f.velocity = e.velocity
                  /\ ~e.isKnockbackActive /\ IsLive(e) /\ IsLive(aiPlayer) =>
                        PointsAt(f.velocity, <<e.x, e.y>>,
                                 <<aiPlayer.x, aiPlayer.y>>)
      ]_vars

\* EnemyAISystem has run for two live enemies: one under knockback, moving
\* away from the player, and one in pursuit
C32_Witness ==
    /\ aiPhase = 3
    /\ IsLive(aiPlayer)
    /\ \E i, j \in DOMAIN aiEnemies :
          /\ IsLive(aiEnemies[i]) /\ IsLive(aiEnemies[j])
          /\ aiEnemies[i].isKnockbackActive
          /\ ~PointsAt(aiEnemies[i].velocity,
                       <<aiEnemies[i].x, aiEnemies[i].y>>,
                       <<aiPlayer.x, aiPlayer.y>>)
          /\ ~aiEnemies[j].isKnockbackActive
          /\ aiEnemies[j].velocity.vx # 0

\* v is the knockback of the given force from source on an entity at place:
\* it points away from source and is as long as the force, limited by
\* maxSpeed as setVelocity limits every velocity, within the rounding
PushedFrom(v, source, place, force) ==
    LET ax == place[1] - source[1]
        ay == place[2] - source[2]
        norm2 == v.vx * v.vx + v.vy * v.vy
        speed == Min(force, v.maxSpeed)
    IN  /\ (speed - 1) * (speed - 1) <= norm2
        /\ norm2 <= (speed + 1) * (speed + 1)
        /\ IF <<ax, ay>> = <<0, 0>> THEN v.vx > 0 /\ v.vy = 0
           ELSE /\ v.vx * ax + v.vy * ay > 0
                /\ Abs(v.vx * ay - v.vy * ax) <= Abs(ax) + Abs(ay)

\* the enemy e is live and at most range away from the attack point
InMeleeReach(e, attack) ==
    /\ IsLive(e)
    /\ Dist2(<<attack.x, attack.y>>, <<e.x, e.y>>) <= attack.range * attack.range

GamePlay(es) ==
    [i \in DOMAIN es |->
        [x |-> es[i].x, y |-> es[i].y, velocity |-> es[i].velocity,
         hc |-> es[i].hc, isKnockbackActive |-> es[i].isKnockbackActive,
         state |-> es[i].state, staged |-> es[i].staged]]

\* C38: EnemyVisualSystem is cosmetic only: its update changes no position,
\* no velocity, no HealthComponent, no knockback flag and no membership of
\* any entity, and schedules nothing, so the tick leaves the same game
\* whether the system is enabled or not.
C38_VisualSystemIsCosmetic ==
    [][ aiPhase = 3 =>
          /\ GamePlay(aiEnemies') = GamePlay(aiEnemies)
          /\ aiPlayer' = aiPlayer
          /\ aiTimers' = aiTimers
          /\ hitEnemies' = hitEnemies
      ]_vars

\* the enabled EnemyVisualSystem has run on an enemy in pursuit and shows it
\* bouncing
C38_Witness ==
    /\ aiPhase = 0
    /\ visualEnabled
    /\ \E i \in DOMAIN aiEnemies :
          /\ IsLive(aiEnemies[i])
          /\ aiEnemies[i].isMoving
          /\ aiEnemies[i].bounceTime > 0
          /\ aiEnemies[i].scaleTarget = "bounce"

C35_NoDeadEnemyAtContactPass ==
    step = 3 =>
        \A j \in DOMAIN enemyEntities :
            enemyEntities[j].live => isAlive(enemyEntities[j].hc)

\* CollisionSystem is about to run beside a live enemy, after an enemy that
\* was killed has left the world
C35_Witness ==
    /\ step = 3
    /\ \E j \in DOMAIN enemyEntities : enemyEntities[j].live
    /\ \E id \in 1..enemiesMade :
          /\ enemyDeathEvents[id] > 0
          /\ \A j \in DOMAIN enemyEntities : enemyEntities[j].id # id

\* C36: for every interleaving of melee attacks and projectile hits, the
\* score has been increased exactly once and removeEntity has been called
\* exactly once for every killed enemy, and never for a living one, however
\* often handleEnemyDeath has run for it.
C36_ScoredAndStagedOnce ==
    \A j \in DOMAIN enemyEntities :
        LET e == enemyEntities[j]
        IN  IF isAlive(e.hc)
            THEN e.scored = 0 /\ e.removeCalls = 0 /\ ~e.staged
            ELSE e.scored = 1 /\ e.removeCalls = 1 /\ e.staged

\* 'enemy-death' was emitted twice for a killed enemy that is scored and
\* staged once
C36_Witness ==
    \E j \in DOMAIN enemyEntities :
        /\ ~isAlive(enemyEntities[j].hc)
        /\ enemyDeathEvents[enemyEntities[j].id] = 2
        /\ enemyEntities[j].scored = 1
        /\ enemyEntities[j].removeCalls = 1

(***************************************************************************)
(* Claims about the distance tests, checked under SpecThreshold            *)
(***************************************************************************)
\* C37: the two per-tick passes take distance < threshold and the melee
\* scan takes distance <= radius: a player and an enemy exactly 30 apart do
\* not collide, a projectile and an enemy exactly 20 apart do not collide,
\* and an enemy exactly the melee radius away from the attack point is hit.
C37_Thresholds ==
    /\ contactCase.done =>
          (contactCase.hit <=> Dist2(contactCase.a, contactCase.b) < 30 * 30)
    /\ shotCase.done =>
          (shotCase.hit <=> Dist2(shotCase.a, shotCase.b) < 20 * 20)
    /\ meleeCase.done =>
          (meleeCase.hit <=>
              Dist2(meleeCase.a, meleeCase.b)
                  <= meleeCase.range * meleeCase.range)

\* each of the three tests was last made at exactly its threshold
C37_Witness ==
    /\ contactCase.done /\ ~contactCase.hit
    /\ Dist2(contactCase.a, contactCase.b) = 30 * 30
    /\ shotCase.done /\ ~shotCase.hit
    /\ Dist2(shotCase.a, shotCase.b) = 20 * 20
    /\ meleeCase.done /\ meleeCase.hit
    /\ Dist2(meleeCase.a, meleeCase.b) = meleeCase.range * meleeCase.range

(***************************************************************************)
(* Claims about World.clear, checked under SpecClear                       *)
(***************************************************************************)
\* C39: World.clear calls the release hook of every component of every
\* entity the world holds, the entities staged for admission included, and
\* leaves the entity in neither the live set nor a queue.
C39_ClearReleasesAll ==
    [][ membership # "cleared" /\ membership' = "cleared" =>
          /\ \A k \in Kinds :
                slots[k] # 0 => hookCalls'[slots[k]] > hookCalls[slots[k]]
          /\ ~removalStaged'
      ]_vars

====
